---- MODULE Spec2Model ----
(***************************************************************************)
(* The markdown rendering of python-docx (BroadbandForum fork): the        *)
(* paragraph renderer Paragraph.markdown with its field-code state         *)
(* machine, the numbering resolver ParagraphProperties.markdown, the       *)
(* bookmark registry BookmarkStart.bookmarks and the element dispatch      *)
(* Parented.items.                                                         *)
(*                                                                         *)
(* Conventions.  A Python string is a sequence of tokens; a token is one   *)
(* character (" ", "#", "*", "A") or one generated unit that the code      *)
(* adds as a whole ("{{tab}}", "%x%", "[", "{{ref|n}}").  An optional      *)
(* value (None or v) is <<>> or <<v>>.  A value of the paragraph's value   *)
(* stream is a record with a field kind.  A style name is a sequence of    *)
(* lexemes (words, single blanks, digit groups).                           *)
(***************************************************************************)
EXTENDS Integers, Sequences, FiniteSets, TLC

VARIABLES
    \* class attributes (shared by every render)
    previous_style_name,   \* Paragraph.previous_style_name
    saved_numPr,           \* ParagraphProperties.saved_numPr
    saved_ilvl_map,        \* ParagraphProperties.saved_ilvl_map
    saved_ilvl_numPr,      \* ParagraphProperties.saved_ilvl_numPr
    saved_ilvl_actual,     \* ParagraphProperties.saved_ilvl_actual
    bookmarks,             \* BookmarkStart.bookmarks
    clsmap,                \* Parented._clsmap
    stopmap,               \* Parented._stopmap
    \* the numbering part of the document
    numbering,
    \* the container being rendered (Parented.markdown)
    body,                  \* the paragraph elements met so far
    body_lst,              \* markdown_lst of the container: one result each
    \* the other containers: rendered before, or being rendered in turns
    others,                \* for each, its paragraphs met and its results
    \* the frame of Paragraph.markdown
    pc,                    \* "idle" | "loop" | "raised"
    cur,                   \* the paragraph element being rendered
    style_name, use_div, markdown_lst, pos,
    text, state, para_bookmarks, words, anchor,
    added_begin_text, added_open_bracket, need_page_break,
    raised,                \* the exception that ended the render, if any
    \* observations
    reg_log,               \* every bookmark registration, in order
    looked_up,             \* numIds looked up for the current paragraph
    ilvl_log,              \* raw level and depth of every list prefix made
                           \* in this run of 'List Paragraph' paragraphs
    register_log           \* every call of Parented.register since the
                           \* initial state, in order

class_vars == <<previous_style_name, saved_numPr, saved_ilvl_map,
                saved_ilvl_numPr, saved_ilvl_actual, bookmarks>>
num_vars == <<saved_numPr, saved_ilvl_map, saved_ilvl_numPr,
              saved_ilvl_actual>>
loop_vars == <<text, state, para_bookmarks, words, anchor,
               added_begin_text, added_open_bracket, need_page_break>>
frame_vars == <<cur, style_name, use_div, markdown_lst>>
registry_vars == <<clsmap, stopmap, register_log>>
vars == <<previous_style_name, saved_numPr, saved_ilvl_map, saved_ilvl_numPr,
          saved_ilvl_actual, bookmarks, numbering, body, body_lst, others,
          pc, cur,
          style_name, use_div, markdown_lst, pos, text, state,
          para_bookmarks, words, anchor, added_begin_text,
          added_open_bracket, need_page_break, raised, reg_log, looked_up,
          ilvl_log, clsmap, stopmap, register_log>>

-----------------------------------------------------------------------------
(* Bounds of the model *)

\* longest run of list paragraphs rendered in the list specification
MaxRun == 7
\* most paragraphs of a container in the numbering and bookmark
\* specifications
MaxParas == 3
\* most children of a run in the field specification
MaxKids == 5
\* highest raw level of a numbering reference
MaxLevel == 2
\* most paragraphs of a container in the heading and items specifications
MaxHeadings == 2
\* most children of a paragraph in the items specification
MaxItems == 2
\* most paragraphs of each container in the turns specification
MaxEach == 2
\* most tokens of the instruction of a simple field
MaxInstr == 3
\* most pieces (markers, plain characters) of a text of the collapse
\* specification
MaxPieces == 5
\* most calls of Parented.register in the registry specification
MaxRegs == 3

-----------------------------------------------------------------------------
(* Strings as token sequences *)

Whitespace == {" ", "\n", "\t"}

RECURSIVE Rep(_, _)
\* Python's  n * s  (empty for n <= 0)
Rep(s, n) == IF n <= 0 THEN <<>> ELSE s \o Rep(s, n - 1)

RECURSIVE LStrip(_)
LStrip(s) ==
    IF s # <<>> /\ Head(s) \in Whitespace THEN LStrip(Tail(s)) ELSE s

RECURSIVE RStrip(_)
RStrip(s) ==
    IF s # <<>> /\ s[Len(s)] \in Whitespace
    THEN RStrip(SubSeq(s, 1, Len(s) - 1)) ELSE s

Strip(s) == LStrip(RStrip(s))

RECURSIVE SplitAcc(_, _)
SplitAcc(s, w) ==
    IF s = <<>> THEN (IF w = <<>> THEN <<>> ELSE <<w>>)
    ELSE IF Head(s) \in Whitespace
         THEN (IF w = <<>> THEN <<>> ELSE <<w>>) \o SplitAcc(Tail(s), <<>>)
         ELSE SplitAcc(Tail(s), Append(w, Head(s)))

\* str.split(): the maximal runs of non-blank tokens, each a word
Split(s) == SplitAcc(s, <<>>)

RECURSIVE Concat(_)
\* ''.join(seq) of a sequence of strings
Concat(ss) == IF ss = <<>> THEN <<>> ELSE Head(ss) \o Concat(Tail(ss))

Contains(s, tok) == \E i \in 1..Len(s) : s[i] = tok

-----------------------------------------------------------------------------
(* Values of a value stream, and results *)

Str(s) == [kind |-> "str", s |-> s]
NoneValue == [kind |-> "None"]
is_string(v) == v.kind = "str"

-----------------------------------------------------------------------------
(* Style names *)

Normal == <<"Normal">>
ListParagraph == <<"List", " ", "Paragraph">>
Code == <<"Code">>
PlainText == <<"Plain", " ", "Text">>
Subheading == <<"Subheading">>
Toc1 == <<"TOC", " ", "1">>
TableOfFigures == <<"Table", " ", "of", " ", "Figures">>
AnnexHeading == <<"Annex", " ", "Heading">>
AppendixHeading == <<"Appendix", " ", "Heading">>
HeadingN(d) == <<"Heading", " ", d>>
AnnexN(d) == <<"Annex", " ", d>>

Digits == {"0", "1", "2", "3"}
\* int() of a digit group
IntOf(d) == CASE d = "0" -> 0 [] d = "1" -> 1 [] d = "2" -> 2 [] d = "3" -> 3

\* str.lower() of one lexeme
LowerLexeme(w) ==
    CASE w = "Normal" -> "normal"
      [] w = "List" -> "list"
      [] w = "Paragraph" -> "paragraph"
      [] w = "Code" -> "code"
      [] w = "Plain" -> "plain"
      [] w = "Text" -> "text"
      [] w = "Subheading" -> "subheading"
      [] w = "TOC" -> "toc"
      [] w = "Table" -> "table"
      [] w = "Figures" -> "figures"
      [] w = "Annex" -> "annex"
      [] w = "Appendix" -> "appendix"
      [] w = "Heading" -> "heading"
      [] OTHER -> w

Lower(name) == [i \in 1..Len(name) |-> LowerLexeme(name[i])]

RECURSIVE SkipBlanks(_)
SkipBlanks(rest) ==
    IF rest # <<>> /\ Head(rest) \in Whitespace
    THEN SkipBlanks(Tail(rest)) ELSE rest

\* re.match(r'(Heading|Annex|Appendix)\s*(\d+|Heading)', name): <<>> when
\* there is no match, else <<[g1, g2]>>
HeadingMatch(name) ==
    IF name # <<>> /\ Head(name) \in {"Heading", "Annex", "Appendix"}
    THEN LET rest == SkipBlanks(Tail(name))
         IN IF rest # <<>> /\ (Head(rest) \in Digits \/ Head(rest) = "Heading")
            THEN <<[g1 |-> Head(name), g2 |-> Head(rest)]>>
            ELSE <<>>
    ELSE <<>>

\* LevelAndSpecial with the family kept at every level
LevelAndSpecial_AnyLevel(name) ==
    LET match == HeadingMatch(name)
    IN IF match # <<>>
       THEN [level |-> IF match[1].g2 = "Heading" THEN 1
                       ELSE IntOf(match[1].g2),
             special |-> IF match[1].g1 \in {"Annex", "Appendix"}
                         THEN <<LowerLexeme(match[1].g1)>> ELSE <<>>]
       ELSE [level |-> 0, special |-> <<>>]

\* ParagraphProperties._level_and_special
LevelAndSpecial(name) ==
    LET match == HeadingMatch(name)
    IN IF match # <<>>
       THEN LET level == IF match[1].g2 = "Heading" THEN 1
                         ELSE IntOf(match[1].g2)
            IN [level |-> level,
                special |-> IF match[1].g1 \in {"Annex", "Appendix"}
                               /\ level = 1
                            THEN <<LowerLexeme(match[1].g1)>> ELSE <<>>]
       ELSE [level |-> 0, special |-> <<>>]

\* re.match(r'toc \d+|table of figures', style_name), on the lower-cased name
IgnoredStyle(lname) ==
    \/ Len(lname) >= 3 /\ lname[1] = "toc" /\ lname[2] = " "
       /\ lname[3] \in Digits
    \/ Len(lname) >= 5
       /\ SubSeq(lname, 1, 5) = <<"table", " ", "of", " ", "figures">>

-----------------------------------------------------------------------------
(* The numbering part: nums maps a numId to its abstractNumId, fmts maps   *)
(* <<abstractNumId, ilvl>> to the numFmt of that level                     *)

Put(f, k, v) == [x \in (DOMAIN f) \cup {k} |-> IF x = k THEN v ELSE f[x]]

AllowedNumFmt == {"bullet", "decimal", "lowerLetter", "lowerRoman"}

\* the state of ParagraphProperties as declared in the class body
NsInit == [saved_numPr |-> <<>>, saved_ilvl_map |-> <<>>,
           saved_ilvl_numPr |-> -1, saved_ilvl_actual |-> -1]

NsNow == [saved_numPr |-> saved_numPr, saved_ilvl_map |-> saved_ilvl_map,
          saved_ilvl_numPr |-> saved_ilvl_numPr,
          saved_ilvl_actual |-> saved_ilvl_actual]

\* "if this isn't a ListParagraph, clear out the saved numPr and ilvls"
ClearSaved(name, ns) == IF name # ListParagraph THEN NsInit ELSE ns

\* DeriveActual with the raw level trusted when it rises
DeriveActual_TrustIlvl(ilvl, ns) ==
    IF ilvl > ns.saved_ilvl_numPr
    THEN [ok |-> TRUE,
          ns |-> [ns EXCEPT
                    !.saved_ilvl_actual = ilvl,
                    !.saved_ilvl_map = Put(@, ilvl, ilvl),
                    !.saved_ilvl_numPr = ilvl]]
    ELSE IF ilvl < ns.saved_ilvl_numPr
    THEN IF ilvl \in DOMAIN ns.saved_ilvl_map
         THEN [ok |-> TRUE,
               ns |-> [ns EXCEPT
                         !.saved_ilvl_actual = ns.saved_ilvl_map[ilvl],
                         !.saved_ilvl_numPr = ilvl]]
         ELSE [ok |-> FALSE, ns |-> ns]
    ELSE [ok |-> TRUE, ns |-> [ns EXCEPT !.saved_ilvl_numPr = ilvl]]

\* DeriveActual with the depth stepped down by one when the raw level
\* falls, instead of looked up
DeriveActual_StepDown(ilvl, ns) ==
    IF ilvl > ns.saved_ilvl_numPr
    THEN [ok |-> TRUE,
          ns |-> [ns EXCEPT
                    !.saved_ilvl_actual = @ + 1,
                    !.saved_ilvl_map = Put(@, ilvl, ns.saved_ilvl_actual + 1),
                    !.saved_ilvl_numPr = ilvl]]
    ELSE IF ilvl < ns.saved_ilvl_numPr
    THEN [ok |-> TRUE,
          ns |-> [ns EXCEPT !.saved_ilvl_actual = @ - 1,
                            !.saved_ilvl_numPr = ilvl]]
    ELSE [ok |-> TRUE, ns |-> [ns EXCEPT !.saved_ilvl_numPr = ilvl]]

\* DeriveActual with the depth incremented for an equal raw level as for a
\* higher one
DeriveActual_RiseOrEqual(ilvl, ns) ==
    IF ilvl >= ns.saved_ilvl_numPr
    THEN [ok |-> TRUE,
          ns |-> [ns EXCEPT
                    !.saved_ilvl_actual = @ + 1,
                    !.saved_ilvl_map = Put(@, ilvl, ns.saved_ilvl_actual + 1),
                    !.saved_ilvl_numPr = ilvl]]
    ELSE IF ilvl \in DOMAIN ns.saved_ilvl_map
    THEN [ok |-> TRUE,
          ns |-> [ns EXCEPT !.saved_ilvl_actual = ns.saved_ilvl_map[ilvl],
                            !.saved_ilvl_numPr = ilvl]]
    ELSE [ok |-> FALSE, ns |-> ns]

\* DeriveActual with the recorded depth of a raw level kept when the level
\* is met again on a rise
DeriveActual_KeepRecorded(ilvl, ns) ==
    IF ilvl > ns.saved_ilvl_numPr
    THEN IF ilvl \in DOMAIN ns.saved_ilvl_map
         THEN [ok |-> TRUE,
               ns |-> [ns EXCEPT
                         !.saved_ilvl_actual = ns.saved_ilvl_map[ilvl],
                         !.saved_ilvl_numPr = ilvl]]
         ELSE [ok |-> TRUE,
               ns |-> [ns EXCEPT
                         !.saved_ilvl_actual = @ + 1,
                         !.saved_ilvl_map =
                             Put(@, ilvl, ns.saved_ilvl_actual + 1),
                         !.saved_ilvl_numPr = ilvl]]
    ELSE IF ilvl < ns.saved_ilvl_numPr
    THEN IF ilvl \in DOMAIN ns.saved_ilvl_map
         THEN [ok |-> TRUE,
               ns |-> [ns EXCEPT
                         !.saved_ilvl_actual = ns.saved_ilvl_map[ilvl],
                         !.saved_ilvl_numPr = ilvl]]
         ELSE [ok |-> FALSE, ns |-> ns]
    ELSE [ok |-> TRUE, ns |-> [ns EXCEPT !.saved_ilvl_numPr = ilvl]]

\* "derive the actual level": ok is FALSE when saved_ilvl_map[ilvl] raises
DeriveActual(ilvl, ns) ==
    IF ilvl > ns.saved_ilvl_numPr
    THEN [ok |-> TRUE,
          ns |-> [ns EXCEPT
                    !.saved_ilvl_actual = @ + 1,
                    !.saved_ilvl_map = Put(@, ilvl, ns.saved_ilvl_actual + 1),
                    !.saved_ilvl_numPr = ilvl]]
    ELSE IF ilvl < ns.saved_ilvl_numPr
    THEN IF ilvl \in DOMAIN ns.saved_ilvl_map
         THEN [ok |-> TRUE,
               ns |-> [ns EXCEPT
                         !.saved_ilvl_actual = ns.saved_ilvl_map[ilvl],
                         !.saved_ilvl_numPr = ilvl]]
         ELSE [ok |-> FALSE, ns |-> ns]
    ELSE [ok |-> TRUE, ns |-> [ns EXCEPT !.saved_ilvl_numPr = ilvl]]

\* the list prefix: indent + '* ' or '#. '
ListPrefix(actual, numFmt) ==
    Rep(<<" ">>, 4 * actual)
        \o (IF numFmt = "bullet" THEN <<"*", " ">> ELSE <<"#", ".", " ">>)

\* the part of ParagraphProperties.markdown after the numId test: the
\* lookup in the numbering part, the depth and the prefix
Numbered(numPr, ns, nb) ==
    LET numId == numPr.numId
        ilvl == numPr.ilvl
    IN IF numId \notin DOMAIN nb.nums
       THEN [ns |-> ns, ret |-> Str(<<>>), exc |-> <<"KeyError">>,
             looked |-> <<numId>>, derived |-> <<>>]
       ELSE LET abstractNumId == nb.nums[numId]
            IN IF <<abstractNumId, ilvl>> \notin DOMAIN nb.fmts
               THEN [ns |-> ns, ret |-> Str(<<>>), exc |-> <<>>,
                     looked |-> <<numId>>, derived |-> <<>>]
               ELSE LET numFmt == nb.fmts[<<abstractNumId, ilvl>>]
                        d == DeriveActual(ilvl, ns)
                    IN IF numFmt \notin AllowedNumFmt
                       THEN [ns |-> ns, ret |-> Str(<<>>),
                             exc |-> <<"AssertionError">>,
                             looked |-> <<numId>>, derived |-> <<>>]
                       ELSE IF ~d.ok
                       THEN [ns |-> d.ns, ret |-> Str(<<>>),
                             exc |-> <<"KeyError">>, looked |-> <<numId>>,
                             derived |-> <<>>]
                       ELSE [ns |-> d.ns,
                             ret |-> Str(ListPrefix(d.ns.saved_ilvl_actual,
                                                    numFmt)),
                             exc |-> <<>>, looked |-> <<numId>>,
                             derived |-> <<[ilvl |-> ilvl,
                                            actual |->
                                              d.ns.saved_ilvl_actual]>>]

\* NumIdTest without the test: numId 0 is looked up like any other
NumIdTest_Lookup(numPr, ns, nb) == Numbered(numPr, ns, nb)

\* numId zero means no numbering: '' without any lookup
NumIdTest(numPr, ns, nb) ==
    IF numPr.numId = 0
    THEN [ns |-> ns, ret |-> Str(<<>>), exc |-> <<>>, looked |-> <<>>,
          derived |-> <<>>]
    ELSE Numbered(numPr, ns, nb)

\* the heading marker: (level * '#') + ' '
HeadingMarker(level) == Rep(<<"#">>, level) \o <<" ">>

\* ParagraphProperties.markdown of the element pp whose parent paragraph has
\* the style name; ns is the class state before, nb the numbering part.
\* Yields the class state after, the returned string, the exception raised
\* (if any), the numIds looked up and the raw level and depth derived.
PPrMarkdown(pp, name, ns0, nb) ==
    LET ns == ClearSaved(name, ns0)
        level == LevelAndSpecial(name).level
    IN IF level > 0
       THEN [ns |-> ns, ret |-> Str(HeadingMarker(level)), exc |-> <<>>,
             looked |-> <<>>, derived |-> <<>>]
       ELSE LET numPr == IF pp.numPr # <<>> THEN pp.numPr
                         ELSE ns.saved_numPr
            IN IF numPr = <<>>
               THEN [ns |-> ns, ret |-> Str(<<>>), exc |-> <<>>,
                     looked |-> <<>>, derived |-> <<>>]
               ELSE NumIdTest(numPr[1], [ns EXCEPT !.saved_numPr = numPr],
                              nb)

\* ParagraphProperties.markdown_suffix
PPrMarkdownSuffix(pp, name) ==
    LET special == LevelAndSpecial(name).special
        classes == [i \in 1..Len(special) |-> <<".", special[i]>>]
                   \o (IF pp.numPr # <<>> /\ pp.numPr[1].numId = 0
                       THEN <<<<".", "unnumbered">>>> ELSE <<>>)
    IN IF classes # <<>>
       THEN <<" ", "{">> \o classes[1]
            \o (IF Len(classes) > 1 THEN <<" ">> \o classes[2] ELSE <<>>)
            \o <<"}">>
       ELSE <<>>

-----------------------------------------------------------------------------
(* Field instructions *)

LowerAlpha == <<"a", "b", "c", "d", "e", "f", "g", "h", "i", "j", "k", "l",
                "m", "n", "o", "p", "q", "r", "s", "t", "u", "v", "w", "x",
                "y", "z">>
UpperAlpha == <<"A", "B", "C", "D", "E", "F", "G", "H", "I", "J", "K", "L",
                "M", "N", "O", "P", "Q", "R", "S", "T", "U", "V", "W", "X",
                "Y", "Z">>

LowerChar(c) ==
    IF \E i \in 1..Len(UpperAlpha) : UpperAlpha[i] = c
    THEN LowerAlpha[CHOOSE i \in 1..Len(UpperAlpha) : UpperAlpha[i] = c]
    ELSE c

UpperChar(c) ==
    IF \E i \in 1..Len(LowerAlpha) : LowerAlpha[i] = c
    THEN UpperAlpha[CHOOSE i \in 1..Len(LowerAlpha) : LowerAlpha[i] = c]
    ELSE c

RECURSIVE CamelJoin(_)
\* re.sub(r'([-_ ].)', lambda m: m.group(1)[1].upper(), s)
CamelJoin(s) ==
    IF s = <<>> THEN <<>>
    ELSE IF Head(s) \in {"-", "_", " "} /\ Len(s) >= 2 /\ s[2] # "\n"
         THEN <<UpperChar(s[2])>> \o CamelJoin(Tail(Tail(s)))
         ELSE <<Head(s)>> \o CamelJoin(Tail(s))

\* SimpleField.mapname
mapname(name, prefix) ==
    LET joined == prefix \o name
    IN CamelJoin([i \in 1..Len(joined) |-> LowerChar(joined[i])])

\* re.sub(r'^"|"$', '', word)
Unquote(word) ==
    LET a == IF word # <<>> /\ Head(word) = "\"" THEN Tail(word) ELSE word
    IN IF a # <<>> /\ a[Len(a)] = "\"" THEN SubSeq(a, 1, Len(a) - 1) ELSE a

DocxSeqPrefix == <<"d", "o", "c", "x", "-", "s", "e", "q", "-">>

\* FieldCode.markdown with the bookmark of the name looked up in the
\* registry and returned with the field code ("text = (self,
\* bookmarks.get(name, None))")
FieldCodeMarkdown_Resolved(elem) ==
    LET ws == Split(Strip(elem.text))
        self == [kind |-> "FieldCode", text |-> elem.text]
    IN IF Len(ws) < 2 THEN self
       ELSE IF ws[1] = <<"DOCPROPERTY">>
       THEN Str(<<"%">> \o mapname(Unquote(ws[2]), <<>>) \o <<"%">>)
       ELSE IF ws[1] = <<"SEQ">>
       THEN Str(<<"%">> \o mapname(ws[2], DocxSeqPrefix) \o <<"%">>)
       ELSE IF ws[1] = <<"REF">>
       THEN [kind |-> "tuple", field_code |-> self,
             bookmark_start |->
                 IF Len(ws[2]) = 1 /\ ws[2][1] \in DOMAIN bookmarks
                 THEN <<bookmarks[ws[2][1]]>> ELSE <<>>]
       ELSE self

\* FieldCode.markdown of a w:instrText element: the registry of bookmarks
\* is read for a REF and left out of the value
FieldCodeMarkdown(elem) ==
    LET ws == Split(Strip(elem.text))
        self == [kind |-> "FieldCode", text |-> elem.text]
    IN IF Len(ws) < 2 THEN self
       ELSE IF ws[1] = <<"DOCPROPERTY">>
       THEN Str(<<"%">> \o mapname(Unquote(ws[2]), <<>>) \o <<"%">>)
       ELSE IF ws[1] = <<"SEQ">>
       THEN Str(<<"%">> \o mapname(ws[2], DocxSeqPrefix) \o <<"%">>)
       ELSE IF ws[1] = <<"REF">>
       THEN [kind |-> "tuple", field_code |-> self, bookmark_start |-> <<>>]
       ELSE self

DocxPrefix == <<"d", "o", "c", "x", "-">>

\* SimpleField.markdown with the quotes of a property name kept and the
\* plain prefix given to a sequence counter
SimpleFieldMarkdown_Plain(elem) ==
    LET ws == Split(Strip(elem.instr))
        var(name) == [ret |-> Str(<<"%">> \o name \o <<"%">>), exc |-> <<>>]
        fails(e) == [ret |-> NoneValue, exc |-> <<e>>]
    IN IF ws = <<>> THEN fails("IndexError")
       ELSE IF ws[1] = <<"DOCPROPERTY">>
       THEN IF Len(ws) > 1 THEN var(mapname(ws[2], <<>>))
            ELSE fails("AssertionError")
       ELSE IF ws[1] = <<"SEQ">>
       THEN IF Len(ws) > 1 THEN var(mapname(ws[2], DocxPrefix))
            ELSE fails("AssertionError")
       ELSE var(mapname([i \in 1..Len(ws[1]) |-> LowerChar(ws[1][i])],
                        DocxPrefix))

\* SimpleField.markdown of a w:fldSimple element: the value ret, or the
\* exception exc it raises
SimpleFieldMarkdown(elem) ==
    LET ws == Split(Strip(elem.instr))
        var(name) == [ret |-> Str(<<"%">> \o name \o <<"%">>), exc |-> <<>>]
        fails(e) == [ret |-> NoneValue, exc |-> <<e>>]
    IN IF ws = <<>> THEN fails("IndexError")
       ELSE IF ws[1] = <<"DOCPROPERTY">>
       THEN IF Len(ws) > 1 THEN var(mapname(Unquote(ws[2]), <<>>))
            ELSE fails("AssertionError")
       ELSE IF ws[1] = <<"SEQ">>
       THEN IF Len(ws) > 1 THEN var(mapname(ws[2], DocxSeqPrefix))
            ELSE fails("AssertionError")
       ELSE var(mapname([i \in 1..Len(ws[1]) |-> LowerChar(ws[1][i])],
                        DocxPrefix))

-----------------------------------------------------------------------------
(* Element dispatch: Parented._clsmap and Parented._stopmap as filled by   *)
(* docx/__init__.py                                                        *)

IgnoredTags == {"mc:AlternateContent", "w:commentRangeEnd",
                "w:commentRangeStart", "w:commentReference",
                "w:footnoteReference", "w:lastRenderedPageBreak",
                "w:noBreakHyphen", "w:object", "w:pict", "w:proofErr",
                "w:rPr", "w:sectPr", "w:softHyphen", "w:tblGrid", "w:tcPr",
                "w:tblPr", "w:trPr"}

\* _clsmap.get(elem.tag, Undefined)
ClassOf(tag) ==
    CASE tag \in IgnoredTags -> "Ignored"
      [] tag = "w:drawing" -> "Drawing"
      [] tag = "w:tc" -> "_Cell"
      [] tag = "w:tr" -> "_Row"
      [] tag = "w:tbl" -> "Table"
      [] tag = "w:fldChar" -> "FieldChar"
      [] tag = "w:instrText" -> "FieldCode"
      [] tag = "w:fldSimple" -> "SimpleField"
      [] tag = "w:hyperlink" -> "Hyperlink"
      [] tag = "w:p" -> "Paragraph"
      [] tag = "w:bookmarkEnd" -> "BookmarkEnd"
      [] tag = "w:bookmarkStart" -> "BookmarkStart"
      [] tag = "w:pPr" -> "ParagraphProperties"
      [] tag = "w:sym" -> "SymbolChar"
      [] tag = "w:tab" -> "TabChar"
      [] tag = "w:br" -> "Break"
      [] tag = "w:del" -> "DeletedRun"
      [] tag = "w:delText" -> "DeletedText"
      [] tag = "w:ins" -> "InsertedRun"
      [] tag = "w:r" -> "Run"
      [] tag = "w:t" -> "_Text"
      [] OTHER -> "Undefined"

\* _stopmap.get(type(self))
StopOf(cls) == cls \in {"Drawing", "ParagraphProperties"}

\* Parented.items of an element: its children, none for a terminal class;
\* Ignored.items: none
Items(elem) ==
    IF ClassOf(elem.tag) = "Ignored" \/ StopOf(ClassOf(elem.tag)) THEN <<>>
    ELSE elem.kids

\* the tags registered by docx/__init__.py
RegisteredTags ==
    IgnoredTags \cup
    {"w:drawing", "w:tc", "w:tr", "w:tbl", "w:fldChar", "w:instrText",
     "w:fldSimple", "w:hyperlink", "w:p", "w:bookmarkEnd", "w:bookmarkStart",
     "w:pPr", "w:sym", "w:tab", "w:br", "w:del", "w:delText", "w:ins", "w:r",
     "w:t"}

\* Parented._clsmap and Parented._stopmap once docx/__init__.py has run
ImportedClsmap == [tag \in RegisteredTags |-> ClassOf(tag)]
ImportedStopmap ==
    [cls \in {ClassOf(tag) : tag \in RegisteredTags} |-> StopOf(cls)]

\* register with a tag that has a class already left to that class
RegisterClass_FirstWins(cm, sm, cls, tag, stop) ==
    [clsmap |-> IF tag \in DOMAIN cm THEN cm ELSE Put(cm, tag, cls),
     stopmap |-> Put(sm, cls, stop)]

\* Parented.register: cls._clsmap[tag_] = cls; cls._stopmap[cls] = stop
RegisterClass(cm, sm, cls, tag, stop) ==
    [clsmap |-> Put(cm, tag, cls), stopmap |-> Put(sm, cls, stop)]

\* the classes of the items of a node of class cls whose element has
\* children of the tags kids, with the maps cm and sm
ItemsOf(cm, sm, cls, kids) ==
    IF cls = "Ignored" THEN <<>>
    ELSE IF cls \in DOMAIN sm /\ sm[cls] THEN <<>>
    ELSE [i \in 1..Len(kids) |-> IF kids[i] \in DOMAIN cm THEN cm[kids[i]]
                                 ELSE "Undefined"]

RECURSIVE Registrations(_)
\* the registrations BookmarkStart.__init__ makes while the proxies of the
\* children kids are constructed
Registrations(kids) ==
    IF kids = <<>> THEN <<>>
    ELSE (IF ClassOf(Head(kids).tag) = "BookmarkStart"
          THEN <<[name |-> Head(kids).name, node |-> Head(kids).id]>>
          ELSE <<>>) \o Registrations(Tail(kids))

\* Register with a name that is registered already left as it is
Register_FirstWins(bm, reg) ==
    IF reg.name \in DOMAIN bm THEN bm ELSE Put(bm, reg.name, reg.node)

\* cls.bookmarks[self._start.name] = self
Register(bm, reg) == Put(bm, reg.name, reg.node)

RECURSIVE RegisterAll(_, _)
RegisterAll(bm, regs) ==
    IF regs = <<>> THEN bm
    ELSE RegisterAll(Register(bm, Head(regs)), Tail(regs))

\* the markdown of a child that is neither a run nor paragraph properties
LeafMarkdown(elem) ==
    LET cls == ClassOf(elem.tag)
    IN CASE cls = "FieldChar" ->
              [kind |-> "FieldChar", fldCharType |-> elem.fldCharType]
         [] cls = "FieldCode" -> FieldCodeMarkdown(elem)
         [] cls = "BookmarkStart" ->
              [kind |-> "BookmarkStart", name |-> elem.name, id |-> elem.id]
         [] cls = "BookmarkEnd" -> [kind |-> "BookmarkEnd", id |-> elem.id]
         [] cls = "TabChar" -> Str(<<"{{tab}}">>)
         [] cls = "SimpleField" -> SimpleFieldMarkdown(elem).ret
         [] cls = "Ignored" -> Str(<<>>)
         [] cls = "Undefined" -> Str(<<>>)

\* the markdown of a child of a run: the classes _Text and Break are those
\* of docx/text/run.py: a text gives its string, a break gives itself
RunItemMarkdown(elem) ==
    CASE ClassOf(elem.tag) = "_Text" -> Str(elem.text)
      [] ClassOf(elem.tag) = "Break" -> [kind |-> "Break"]
      [] OTHER -> LeafMarkdown(elem)

\* Run.markdown (docx/text/run.py): the list of the values of the run's
\* children, which the loop of Paragraph.markdown flattens
RunMarkdown(run) ==
    [kind |-> "list",
     vals |-> [i \in 1..Len(Items(run)) |-> RunItemMarkdown(Items(run)[i])]]

\* the exception the markdown of a child raises, if any
LeafRaises(elem) ==
    IF ClassOf(elem.tag) = "SimpleField" THEN SimpleFieldMarkdown(elem).exc
    ELSE <<>>

RECURSIVE FirstRaise(_)
\* the exception that stops [item.markdown for item in kids], if any
FirstRaise(kids) ==
    IF kids = <<>> THEN <<>>
    ELSE IF LeafRaises(Head(kids)) # <<>> THEN LeafRaises(Head(kids))
    ELSE FirstRaise(Tail(kids))

\* item.markdown of a child of a hyperlink
ChildMarkdown(elem) ==
    IF ClassOf(elem.tag) = "Run" THEN RunMarkdown(elem)
    ELSE LeafMarkdown(elem)

\* Flatten with the list of a run left as one value
Flatten_Nested(lst) == lst

\* the values the loop of Paragraph.markdown visits, in order
Flatten(lst) ==
    Concat([i \in 1..Len(lst) |->
              IF lst[i].kind = "list" THEN lst[i].vals ELSE <<lst[i]>>])

\* Parented.markdown of the container: the strings of its list, joined
Joined(lst) ==
    Concat([i \in 1..Len(lst) |-> IF is_string(lst[i]) THEN lst[i].s
                                  ELSE <<>>])

\* Hyperlink.markdown with a relationship id that the part does not have
\* rendered as a link without a target
HyperlinkMarkdown_NoCheck(elem) ==
    LET kids == Items(elem)
        txt == Joined(Flatten([i \in 1..Len(kids) |->
                                  ChildMarkdown(kids[i])]))
        target_ref == IF elem.rid # <<>> /\ elem.rid[1] \in DOMAIN elem.rels
                      THEN elem.rels[elem.rid[1]] ELSE <<>>
    IN IF FirstRaise(kids) # <<>>
       THEN [ret |-> NoneValue, exc |-> FirstRaise(kids)]
       ELSE IF elem.anchor # <<>>
       THEN [ret |-> Str(<<"[">> \o txt \o <<"]", "[", "{{ref|">>
                         \o elem.anchor[1] \o <<"}}", "]">>),
             exc |-> <<>>]
       ELSE IF txt = target_ref
       THEN [ret |-> Str(<<"<">> \o target_ref \o <<">">>), exc |-> <<>>]
       ELSE [ret |-> Str(<<"[">> \o txt \o <<"]", "(">> \o target_ref
                         \o <<")">>),
             exc |-> <<>>]

\* Hyperlink.markdown of a w:hyperlink element of a part with the
\* relationships elem.rels: the value ret, or the exception exc it raises
HyperlinkMarkdown(elem) ==
    LET kids == Items(elem)
        txt == Joined(Flatten([i \in 1..Len(kids) |->
                                  ChildMarkdown(kids[i])]))
        anchor_ == elem.anchor # <<>>
        rid_ == elem.rid # <<>>
        fails(e) == [ret |-> NoneValue, exc |-> <<e>>]
    IN IF FirstRaise(kids) # <<>>
       THEN [ret |-> NoneValue, exc |-> FirstRaise(kids)]
       ELSE IF ~((anchor_ \/ rid_) /\ ~(anchor_ /\ rid_))
       THEN fails("AssertionError")
       ELSE IF anchor_
       THEN [ret |-> Str(<<"[">> \o txt \o <<"]", "[", "{{ref|">>
                         \o elem.anchor[1] \o <<"}}", "]">>),
             exc |-> <<>>]
       ELSE IF elem.rid[1] \notin DOMAIN elem.rels
       THEN fails("AssertionError")
       ELSE LET target_ref == elem.rels[elem.rid[1]]
            IN IF txt = target_ref
               THEN [ret |-> Str(<<"<">> \o target_ref \o <<">">>),
                     exc |-> <<>>]
               ELSE [ret |-> Str(<<"[">> \o txt \o <<"]", "(">>
                                 \o target_ref \o <<")">>),
                     exc |-> <<>>]

RECURSIVE MarkdownList(_, _, _)
\* [item.markdown for item in self.items] of a paragraph with the style
\* name: acc carries the class state ns, the list lst so far, the exception
\* exc that stopped it, the numIds looked up, the registrations made and
\* the log of raw levels and depths
MarkdownList(kids, name, acc) ==
    IF kids = <<>> \/ acc.exc # <<>> THEN acc
    ELSE LET k == Head(kids)
             cls == ClassOf(k.tag)
         IN IF cls = "ParagraphProperties"
            THEN LET r == PPrMarkdown(k, name, acc.ns, numbering)
                 IN MarkdownList(Tail(kids), name,
                        [acc EXCEPT !.ns = r.ns,
                                    !.lst = IF r.exc = <<>>
                                            THEN Append(@, r.ret) ELSE @,
                                    !.exc = r.exc,
                                    !.looked = @ \o r.looked,
                                    !.log = IF name = ListParagraph
                                            THEN @ \o r.derived ELSE @])
            ELSE IF cls = "Run"
            THEN MarkdownList(Tail(kids), name,
                        [acc EXCEPT !.lst = Append(@, RunMarkdown(k)),
                                    !.regs = @ \o Registrations(Items(k))])
            ELSE IF cls = "Hyperlink"
            THEN LET r == HyperlinkMarkdown(k)
                 IN MarkdownList(Tail(kids), name,
                        [acc EXCEPT !.lst = IF r.exc = <<>>
                                            THEN Append(@, r.ret) ELSE @,
                                    !.exc = r.exc,
                                    !.regs = @ \o Registrations(Items(k))])
            ELSE MarkdownList(Tail(kids), name,
                        [acc EXCEPT !.lst = IF LeafRaises(k) = <<>>
                                            THEN Append(@, LeafMarkdown(k))
                                            ELSE @,
                                    !.exc = LeafRaises(k)])

-----------------------------------------------------------------------------
(* Paragraph.markdown: the text transforms after the loop *)

\* ParagraphFormat.left_indent / first_line_indent of the paragraph: None
\* without a w:pPr child, else the value its w:ind carries (or None)
FirstPPr(kids) ==
    LET idx == {i \in 1..Len(kids) : kids[i].tag = "w:pPr"}
    IN IF idx = {} THEN <<>>
       ELSE <<kids[CHOOSE i \in idx : \A j \in idx : i <= j]>>

DirectLeftIndent(p) ==
    IF FirstPPr(p.kids) = <<>> THEN <<>> ELSE FirstPPr(p.kids)[1].ind_left

DirectFirstLineIndent(p) ==
    IF FirstPPr(p.kids) = <<>> THEN <<>>
    ELSE FirstPPr(p.kids)[1].first_line_indent

\* a or b or 0  on optional lengths
OrOrZero(a, b) ==
    IF a # <<>> /\ a[1] # 0 THEN a[1]
    ELSE IF b # <<>> /\ b[1] # 0 THEN b[1]
    ELSE 0

left_indent(p) == OrOrZero(DirectLeftIndent(p), p.style.left_indent)

first_line_indent(p) ==
    OrOrZero(DirectFirstLineIndent(p), p.style.first_line_indent)

\* int(x) for the rational x = num / den, den > 0: truncation towards zero
TruncDiv(num, den) ==
    IF num >= 0 THEN num \div den ELSE -((-num) \div den)

\* int((total_indent/1440/50) * (4.00/6.35) + 0.5), in exact arithmetic
Spaces(total_indent) ==
    TruncDiv(2 * 400 * total_indent + 1440 * 50 * 635, 2 * 1440 * 50 * 635)

\* '{{indent=%r}}' % spaces, one token
IndentToken(spaces) ==
    CASE spaces = 1 -> "{{indent=1}}"
      [] spaces = 2 -> "{{indent=2}}"
      [] spaces = 3 -> "{{indent=3}}"
      [] spaces = -1 -> "{{indent=-1}}"
      [] OTHER -> "{{indent=n}}"

Indent(p) ==
    LET spaces == Spaces(left_indent(p) + first_line_indent(p))
    IN IF spaces # 0 THEN <<IndentToken(spaces)>> ELSE <<>>

\* items[0].markdown_suffix: the class Undefined has no such attribute
HasMarkdownSuffix(elem) == ClassOf(elem.tag) # "Undefined"

MarkdownSuffix(elem, name) ==
    IF ClassOf(elem.tag) = "ParagraphProperties"
    THEN PPrMarkdownSuffix(elem, name) ELSE <<>>

RECURSIVE ReplacePair(_, _, _)
\* text.replace(a + b, '')
ReplacePair(t, a, b) ==
    IF Len(t) < 2 THEN t
    ELSE IF t[1] = a /\ t[2] = b THEN ReplacePair(Tail(Tail(t)), a, b)
    ELSE <<Head(t)>> \o ReplacePair(Tail(t), a, b)

\* text.replace(a, md)
ReplaceToken(t, a, md) == [i \in 1..Len(t) |-> IF t[i] = a THEN md ELSE t[i]]

RECURSIVE LeadingBlanks(_)
LeadingBlanks(t) ==
    IF t # <<>> /\ Head(t) \in Whitespace THEN 1 + LeadingBlanks(Tail(t))
    ELSE 0

\* the match of (\s*)(.*?)(\s*)({{endX}}) at the start of r
EmMatch(r, close) ==
    IF ~Contains(r, close) THEN [ok |-> FALSE]
    ELSE LET e == CHOOSE i \in 1..Len(r) :
                      r[i] = close /\ \A j \in 1..(i - 1) : r[j] # close
             w == LeadingBlanks(r)
             mid == SubSeq(r, w + 1, e - 1)
             g3 == RStrip(mid)
         IN IF Contains(g3, "\n") THEN [ok |-> FALSE]
            ELSE [ok |-> TRUE, g2 |-> SubSeq(r, 1, w), g3 |-> g3,
                  g4 |-> SubSeq(mid, Len(g3) + 1, Len(mid)),
                  rest |-> SubSeq(r, e + 1, Len(r))]

RECURSIVE EmSub(_, _, _)
\* re.sub(r'({{X}})(\s*)(.*?)(\s*)({{endX}})', r'\2\1\3\5\4', text)
EmSub(t, open, close) ==
    IF t = <<>> THEN <<>>
    ELSE IF Head(t) = open
    THEN LET m == EmMatch(Tail(t), close)
         IN IF m.ok
            THEN m.g2 \o <<open>> \o m.g3 \o <<close>> \o m.g4
                 \o EmSub(m.rest, open, close)
            ELSE <<open>> \o EmSub(Tail(t), open, close)
    ELSE <<Head(t)>> \o EmSub(Tail(t), open, close)

\* one round of the loop over the character attributes
CollapseOne(t, open, close, md) ==
    ReplaceToken(
        ReplaceToken(
            ReplacePair(EmSub(ReplacePair(t, close, open), open, close),
                        open, close),
            open, md),
        close, md)

\* the token for the markup of 'c', a backquote
Backquote == "(backquote)"

\* the loop over the items of {'c': backquote, 'i': '*', 'b': '**',
\* 'B': '***'}, in the order written
CollapseEmphasis(t) ==
    CollapseOne(
        CollapseOne(
            CollapseOne(
                CollapseOne(t, "{{c}}", "{{endc}}", Backquote),
                "{{i}}", "{{endi}}", "*"),
            "{{b}}", "{{endb}}", "**"),
        "{{B}}", "{{endB}}", "***")

\* a token the pattern {{\w+(=.+?)?}} matches
IsPlaceholder(tok) ==
    tok \in {"{{tab}}", "{{indent=1}}", "{{indent=2}}", "{{indent=3}}",
             "{{indent=-1}}", "{{indent=n}}", "{{c}}", "{{endc}}", "{{i}}",
             "{{endi}}", "{{b}}", "{{endb}}", "{{B}}", "{{endB}}"}

RECURSIVE DropPlaceholders(_)
\* re.sub(r'{{\w+(=.+?)?}}\s*', r'', text)
DropPlaceholders(t) ==
    IF t = <<>> THEN <<>>
    ELSE IF IsPlaceholder(Head(t)) THEN DropPlaceholders(LStrip(Tail(t)))
    ELSE <<Head(t)>> \o DropPlaceholders(Tail(t))

\* the indentation and class-suffix step; sfx is items[0].markdown_suffix
\* (<<>> when the paragraph has no items)
Indented(t, p, lname, indent) ==
    IF lname \in {<<"code">>, <<"plain", " ", "text">>}
    THEN <<" ", " ", " ", " ">> \o indent \o t
    ELSE IF (t # <<>> /\ Head(t) = "{{tab}}") \/ indent # <<>>
    THEN IF lname # <<"list", " ", "paragraph">> THEN indent \o t ELSE t
    ELSE IF Items(p) # <<>>
    THEN RStrip(t) \o MarkdownSuffix(Items(p)[1], p.style.name)
    ELSE t

\* whether the indentation step evaluates self.items (twice when the
\* paragraph has children)
ReachesSuffix(t, lname, indent) ==
    /\ lname \notin {<<"code">>, <<"plain", " ", "text">>}
    /\ ~((t # <<>> /\ Head(t) = "{{tab}}") \/ indent # <<>>)

\* "if a page break was seen, insert it at the beginning"
PageBroken(t, brk) ==
    IF brk
    THEN <<":::", " ", "new-page", " ", ":::", "\n", ":::">>
         \o (IF Strip(t) = <<>> THEN <<>> ELSE <<"\n">>) \o t
    ELSE t

no_newline_styles ==
    {<<"code">>, <<"list", " ", "paragraph">>, <<"plain", " ", "text">>}

\* Terminated with the newline left out when either style is a no-newline
\* style
Terminated_EitherStyle(t, div, prev, lname) ==
    IF div THEN t \o <<"\n", "::::::">>
    ELSE IF ~(prev # <<>> /\ prev[1] \in no_newline_styles)
            /\ lname \notin no_newline_styles
    THEN <<"\n">> \o t
    ELSE t

\* "if using a div, terminate it", else "unless suppressed, insert a newline"
Terminated(t, div, prev, lname) ==
    IF div THEN t \o <<"\n", "::::::">>
    ELSE IF ~(prev # <<>> /\ prev[1] \in no_newline_styles)
            \/ lname \notin no_newline_styles
    THEN <<"\n">> \o t
    ELSE t

\* Discarded without the test for an empty paragraph
Discarded_KeepEmpty(t, lname) ==
    IF IgnoredStyle(lname) THEN NoneValue ELSE Str(t)

\* the discard step: None for an ignored style or an empty paragraph
Discarded(t, lname) ==
    IF IgnoredStyle(lname) THEN NoneValue
    ELSE IF Strip(DropPlaceholders(t)) = <<>> THEN NoneValue
    ELSE Str(t)

-----------------------------------------------------------------------------
(* Paragraph.markdown: the loop over the value stream *)

FieldStates == {"outer", "begin", "separate", "end"}

\* the value the loop is at
Values == Flatten(markdown_lst)
AtValue == pc = "loop" /\ pos <= Len(Values)
Val == Values[pos]

\* '{{ref|%s}}' % word
RefAnchor(word) == <<"{{ref|">> \o word \o <<"}}">>

\* the text at `end`: the open bracket closed or removed, the anchor added
EndText(t, open_bracket, anc) ==
    LET closed == IF open_bracket
                  THEN IF t[Len(t)] = "[" THEN SubSeq(t, 1, Len(t) - 1)
                       ELSE t \o <<"]">>
                  ELSE t
    IN IF anc # <<>> /\ anc[1] # <<>>
       THEN closed \o <<"[">> \o anc[1] \o <<"]">>
       ELSE closed

\* isinstance(val, FieldChar)
OnFieldChar(val) ==
    /\ state' = val.fldCharType
    /\ IF val.fldCharType = "begin"
       THEN /\ words' = <<>>
            /\ anchor' = <<>>
            /\ added_open_bracket' = FALSE
            /\ added_begin_text' = FALSE
            /\ text' = text
       ELSE IF val.fldCharType = "end"
       THEN /\ text' = EndText(text, added_open_bracket, anchor)
            /\ UNCHANGED <<words, anchor, added_open_bracket,
                           added_begin_text>>
       ELSE UNCHANGED <<words, anchor, added_open_bracket, added_begin_text,
                        text>>
    /\ UNCHANGED <<para_bookmarks, need_page_break>>

\* isinstance(val, FieldCode)
OnFieldCode(val) ==
    LET ws == words \o Split(Strip(val.text))
    IN /\ words' = ws
       /\ IF Len(ws) <= 1
          THEN UNCHANGED <<text, added_begin_text, added_open_bracket, anchor>>
          ELSE IF ws[1] = <<"DOCPROPERTY">>
          THEN /\ text' = IF state \in FieldStates
                             /\ (state # "separate" \/ ~added_begin_text)
                          THEN text \o <<"%">>
                               \o mapname(Unquote(ws[2]), <<>>) \o <<"%">>
                          ELSE text
               /\ added_begin_text' =
                      IF state \in FieldStates /\ state = "begin" THEN TRUE
                      ELSE added_begin_text
               /\ UNCHANGED <<added_open_bracket, anchor>>
          ELSE IF ws[1] = <<"REF">>
          THEN /\ text' = IF anchor = <<>> /\ ~added_open_bracket
                          THEN text \o <<"[">> ELSE text
               /\ added_open_bracket' =
                      IF anchor = <<>> THEN TRUE ELSE added_open_bracket
               /\ anchor' = IF anchor = <<>> THEN <<RefAnchor(ws[2])>>
                            ELSE anchor
               /\ UNCHANGED added_begin_text
          ELSE UNCHANGED <<text, added_begin_text, added_open_bracket,
                           anchor>>
       /\ UNCHANGED <<state, para_bookmarks, need_page_break>>

\* isinstance(val, tuple): the value of a REF field code
OnTuple(val) ==
    LET ws == words \o Split(Strip(val.field_code.text))
    IN /\ text' = IF ~added_open_bracket THEN text \o <<"[">> ELSE text
       /\ added_open_bracket' = TRUE
       /\ words' = ws
       /\ anchor' = IF Len(ws) > 1 /\ anchor = <<>>
                    THEN <<RefAnchor(ws[2])>> ELSE anchor
       /\ UNCHANGED <<state, para_bookmarks, added_begin_text,
                      need_page_break>>

\* OnString with the flag set by a begin-state text never (a lost update)
OnString_NoFlag(val) ==
    /\ text' = IF state \in FieldStates
                  /\ (state # "separate" \/ ~added_begin_text)
               THEN text \o val.s ELSE text
    /\ UNCHANGED <<state, para_bookmarks, words, anchor, added_open_bracket,
                   need_page_break, added_begin_text>>

\* OnString with separate-state text dropped whatever the flag
OnString_DropSeparate(val) ==
    /\ text' = IF state \in FieldStates /\ state # "separate"
               THEN text \o val.s ELSE text
    /\ added_begin_text' =
           IF state \in FieldStates /\ state = "begin" /\ Strip(val.s) # <<>>
           THEN TRUE ELSE added_begin_text
    /\ UNCHANGED <<state, para_bookmarks, words, anchor, added_open_bracket,
                   need_page_break>>

\* is_string(val): "'begin' text is preferred to 'separate' text"
OnString(val) ==
    /\ text' = IF state \in FieldStates
                  /\ (state # "separate" \/ ~added_begin_text)
               THEN text \o val.s ELSE text
    /\ added_begin_text' =
           IF state \in FieldStates /\ state = "begin" /\ Strip(val.s) # <<>>
           THEN TRUE ELSE added_begin_text
    /\ UNCHANGED <<state, para_bookmarks, words, anchor, added_open_bracket,
                   need_page_break>>

\* the exception the visit of val raises, if any
LoopRaises(val) ==
    IF val.kind \notin {"FieldChar", "FieldCode", "BookmarkStart",
                        "BookmarkEnd", "tuple", "Break", "str"}
    THEN <<"AssertionError">>
    ELSE IF val.kind = "tuple" /\ val.bookmark_start # <<>>
    THEN <<"AssertionError">>
    ELSE IF val.kind = "FieldChar" /\ val.fldCharType = "end"
            /\ added_open_bracket /\ text = <<>>
    THEN <<"IndexError">>
    ELSE <<>>

-----------------------------------------------------------------------------
(* The actions *)

EmptyParagraph ==
    [tag |-> "w:p",
     style |-> [name |-> <<>>, left_indent |-> <<>>,
                first_line_indent |-> <<>>],
     kids |-> <<>>]

\* the state after the classes are defined, for a numbering part of NB
InitWith(NB) ==
    /\ previous_style_name = <<>>
    /\ saved_numPr = NsInit.saved_numPr
    /\ saved_ilvl_map = NsInit.saved_ilvl_map
    /\ saved_ilvl_numPr = NsInit.saved_ilvl_numPr
    /\ saved_ilvl_actual = NsInit.saved_ilvl_actual
    /\ bookmarks = <<>>
    /\ clsmap = ImportedClsmap
    /\ stopmap = ImportedStopmap
    /\ register_log = <<>>
    /\ numbering \in NB
    /\ body = <<>>
    /\ body_lst = <<>>
    /\ others = <<>>
    /\ pc = "idle"
    /\ cur = EmptyParagraph
    /\ style_name = <<>>
    /\ use_div = FALSE
    /\ markdown_lst = <<>>
    /\ pos = 1
    /\ text = <<>>
    /\ state = "outer"
    /\ para_bookmarks = <<>>
    /\ words = <<>>
    /\ anchor = <<>>
    /\ added_begin_text = FALSE
    /\ added_open_bracket = FALSE
    /\ need_page_break = FALSE
    /\ raised = <<>>
    /\ reg_log = <<>>
    /\ looked_up = <<>>
    /\ ilvl_log = <<>>

\* style_name.replace(' ', '-')
Dashed(lname) == [i \in 1..Len(lname) |-> IF lname[i] = " " THEN "-"
                                          ELSE lname[i]]

\* Paragraph.markdown up to the loop, for the next paragraph p of the
\* container: the style name, the div opener, the items (with their bookmark
\* registrations) and their markdown (with ParagraphProperties.markdown)
Begin(p) ==
    LET lname == Lower(p.style.name)
        div == lname \in {<<"subheading">>}
        acc == MarkdownList(Items(p), p.style.name,
                            [ns |-> NsNow, lst |-> <<>>, exc |-> <<>>,
                             looked |-> <<>>,
                             regs |-> Registrations(Items(p)),
                             log |-> IF p.style.name = ListParagraph
                                     THEN ilvl_log ELSE <<>>])
    IN /\ cur' = p
       /\ body' = Append(body, p)
       /\ style_name' = lname
       /\ use_div' = div
       /\ text' = IF div
                  THEN <<"\n", "::::::", " ">> \o Dashed(lname)
                       \o <<" ", "::::::", "\n">>
                  ELSE <<>>
       /\ bookmarks' = RegisterAll(bookmarks, acc.regs)
       /\ reg_log' = reg_log \o acc.regs
       /\ saved_numPr' = acc.ns.saved_numPr
       /\ saved_ilvl_map' = acc.ns.saved_ilvl_map
       /\ saved_ilvl_numPr' = acc.ns.saved_ilvl_numPr
       /\ saved_ilvl_actual' = acc.ns.saved_ilvl_actual
       /\ looked_up' = acc.looked
       /\ ilvl_log' = acc.log
       /\ markdown_lst' = acc.lst
       /\ pos' = 1
       /\ state' = "outer"
       /\ para_bookmarks' = <<>>
       /\ words' = <<>>
       /\ anchor' = <<>>
       /\ added_begin_text' = FALSE
       /\ added_open_bracket' = FALSE
       /\ need_page_break' = FALSE
       /\ pc' = IF acc.exc = <<>> THEN "loop" ELSE "raised"
       /\ raised' = acc.exc
       /\ UNCHANGED <<previous_style_name, numbering, body_lst, others,
                      registry_vars>>

\* the container renders its next child, a paragraph of P, unless it has
\* rendered maxn already
Start(P, maxn) ==
    /\ pc = "idle"
    /\ Len(body) < maxn
    /\ \E p \in P : Begin(p)

\* one round of "for val in value"
LoopStep ==
    /\ AtValue
    /\ IF LoopRaises(Val) # <<>>
       THEN /\ pc' = "raised"
            /\ raised' = LoopRaises(Val)
            /\ UNCHANGED <<pos, loop_vars>>
       ELSE /\ pos' = pos + 1
            /\ UNCHANGED <<pc, raised>>
            /\ CASE Val.kind = "FieldChar" -> OnFieldChar(Val)
                 [] Val.kind = "FieldCode" -> OnFieldCode(Val)
                 [] Val.kind = "tuple" -> OnTuple(Val)
                 [] Val.kind = "str" -> OnString(Val)
                 [] Val.kind = "BookmarkStart" ->
                      /\ para_bookmarks' = Append(para_bookmarks, Val)
                      /\ UNCHANGED <<text, state, words, anchor,
                                     added_begin_text, added_open_bracket,
                                     need_page_break>>
                 [] Val.kind = "BookmarkEnd" -> UNCHANGED loop_vars
                 [] Val.kind = "Break" ->
                      /\ need_page_break' = TRUE
                      /\ UNCHANGED <<text, state, para_bookmarks, words,
                                     anchor, added_begin_text,
                                     added_open_bracket>>
    /\ UNCHANGED <<class_vars, numbering, body, body_lst, others,
                   frame_vars, reg_log, looked_up, ilvl_log, registry_vars>>

\* the text of the paragraph after all transforms, before the discard step.
\* The rewrite of captions applies to the style 'caption' alone, which no
\* paragraph of the specifications below has.
FinalText ==
    Terminated(
        PageBroken(
            CollapseEmphasis(Indented(text, cur, style_name, Indent(cur))),
            need_page_break),
        use_div, previous_style_name, style_name)

\* the registrations of the two evaluations of self.items in the suffix step
SuffixRegistrations ==
    IF ReachesSuffix(text, style_name, Indent(cur))
    THEN Registrations(Items(cur))
         \o (IF Items(cur) # <<>> THEN Registrations(Items(cur)) ELSE <<>>)
    ELSE <<>>

\* whether items[0].markdown_suffix raises AttributeError
SuffixRaises ==
    /\ ReachesSuffix(text, style_name, Indent(cur))
    /\ Items(cur) # <<>>
    /\ ~HasMarkdownSuffix(Items(cur)[1])

\* Finish with the previous style name remembered for kept paragraphs only
Finish_KeptOnly ==
    /\ pc = "loop"
    /\ pos > Len(Values)
    /\ bookmarks' = RegisterAll(bookmarks, SuffixRegistrations)
    /\ reg_log' = reg_log \o SuffixRegistrations
    /\ IF SuffixRaises
       THEN /\ pc' = "raised"
            /\ raised' = <<"AttributeError">>
            /\ UNCHANGED <<previous_style_name, body_lst>>
       ELSE /\ pc' = "idle"
            /\ raised' = <<>>
            /\ previous_style_name' =
                   IF is_string(Discarded(FinalText, style_name))
                   THEN <<style_name>> ELSE previous_style_name
            /\ body_lst' = Append(body_lst, Discarded(FinalText, style_name))
    /\ UNCHANGED <<num_vars, numbering, body, others, frame_vars, pos,
                   loop_vars, looked_up, ilvl_log, registry_vars>>

\* Paragraph.markdown after the loop: the transforms, the previous style
\* name, the discard step; the container takes the result into its list
Finish ==
    /\ pc = "loop"
    /\ pos > Len(Values)
    /\ bookmarks' = RegisterAll(bookmarks, SuffixRegistrations)
    /\ reg_log' = reg_log \o SuffixRegistrations
    /\ IF SuffixRaises
       THEN /\ pc' = "raised"
            /\ raised' = <<"AttributeError">>
            /\ UNCHANGED <<previous_style_name, body_lst>>
       ELSE /\ pc' = "idle"
            /\ raised' = <<>>
            /\ previous_style_name' = <<style_name>>
            /\ body_lst' = Append(body_lst, Discarded(FinalText, style_name))
    /\ UNCHANGED <<num_vars, numbering, body, others, frame_vars, pos,
                   loop_vars, looked_up, ilvl_log, registry_vars>>

\* a container: the paragraphs met so far and the result of each
Container(b, lst) == [body |-> b, body_lst |-> lst]

\* Parented.markdown is called again on the same container: a new list of
\* results; nothing in Parented.markdown or Paragraph.markdown assigns the
\* class attributes at the start of a call
NewRender ==
    /\ pc = "idle"
    /\ others = <<>>
    /\ body # <<>>
    /\ others' = <<Container(body, body_lst)>>
    /\ body' = <<>>
    /\ body_lst' = <<>>
    /\ UNCHANGED <<class_vars, numbering, pc, frame_vars, pos, loop_vars,
                   raised, reg_log, looked_up, ilvl_log, registry_vars>>

\* the second call renders the next child of the same container
Replay ==
    /\ pc = "idle"
    /\ others # <<>>
    /\ Len(body) < Len(others[1].body)
    /\ Begin(others[1].body[Len(body) + 1])

\* Parented.markdown of another container is called between two paragraphs
\* of this one: the first time the other container is new, afterwards the
\* two take turns
Switch ==
    /\ pc = "idle"
    /\ others' = <<Container(body, body_lst)>>
    /\ body' = IF others = <<>> THEN <<>> ELSE others[1].body
    /\ body_lst' = IF others = <<>> THEN <<>> ELSE others[1].body_lst
    /\ UNCHANGED <<class_vars, numbering, pc, frame_vars, pos, loop_vars,
                   raised, reg_log, looked_up, ilvl_log, registry_vars>>

-----------------------------------------------------------------------------
(* Inputs *)

SeqsUpTo(S, n) == UNION {[1..k -> S] : k \in 0..n}

StyleOf(name) ==
    [name |-> name, left_indent |-> <<>>, first_line_indent |-> <<>>]

Para(name, kids) == [tag |-> "w:p", style |-> StyleOf(name), kids |-> kids]

PPr(numPr) ==
    [tag |-> "w:pPr", numPr |-> numPr, ind_left |-> <<>>,
     first_line_indent |-> <<>>]

NumPr(numId, ilvl) == <<[numId |-> numId, ilvl |-> ilvl]>>

RunOf(kids) == [tag |-> "w:r", kids |-> kids]
TextOf(s) == [tag |-> "w:t", text |-> s]
FldChar(type) == [tag |-> "w:fldChar", fldCharType |-> type]
InstrText(s) == [tag |-> "w:instrText", text |-> s]

\* numId 1 is a bulleted list with every level defined
BulletNumbering ==
    [nums |-> (1 :> 1),
     fmts |-> [x \in {1} \X (0..MaxLevel) |-> "bullet"]]

\* a part that also defines numId 0, and one level as a decimal list
ZeroNumbering ==
    [nums |-> (0 :> 1 @@ 1 :> 1),
     fmts |-> (<<1, 0>> :> "decimal" @@ <<1, 1>> :> "bullet"
               @@ <<1, 2>> :> "bullet")]

\* a part whose level 2 has no numFmt
SparseNumbering ==
    [nums |-> (1 :> 1),
     fmts |-> (<<1, 0>> :> "bullet" @@ <<1, 1>> :> "decimal")]

\* the children of a run of the field specification
FieldKids ==
    {FldChar("begin"), FldChar("separate"), FldChar("end"),
     TextOf(<<"A">>), TextOf(<<"B">>), TextOf(<<" ">>),
     InstrText(<<"DOCPROPERTY">>), InstrText(<<"\"", "x", "\"">>)}

FieldParagraphs ==
    {Para(Normal, <<RunOf(kids)>>) : kids \in SeqsUpTo(FieldKids, MaxKids)}

-----------------------------------------------------------------------------
(* The field specification: one paragraph of one run of field markers,    *)
(* instruction texts and texts. A field begins and ends within one         *)
(* paragraph and `begin` resets the state of the loop, so the container    *)
(* holds the one paragraph.                                                *)

InitField == InitWith({BulletNumbering})
NextField == Start(FieldParagraphs, 1) \/ LoopStep \/ Finish
SpecField == InitField /\ [][NextField]_vars

-----------------------------------------------------------------------------
(* The value stream as the loop has seen it *)

MaxOf(S) == CHOOSE x \in S : \A y \in S : y <= x

\* the field state in which the k-th value is met: the type of the last
\* field marker before it
StateAt(k) ==
    LET idx == {i \in 1..(k - 1) : Values[i].kind = "FieldChar"}
    IN IF idx = {} THEN "outer" ELSE Values[MaxOf(idx)].fldCharType

\* the index of the last `begin` marker before the k-th value (0: none)
LastBegin(k) ==
    LET idx == {i \in 1..(k - 1) : Values[i].kind = "FieldChar"
                                   /\ Values[i].fldCharType = "begin"}
    IN IF idx = {} THEN 0 ELSE MaxOf(idx)

\* the values of the field the k-th value belongs to that were met in
\* `begin` state
BeginValues(k) ==
    {j \in (LastBegin(k) + 1)..(k - 1) : StateAt(j) = "begin"}

TextInBegin(k) == \E j \in BeginValues(k) : Values[j].kind = "str"

NonBlankTextInBegin(k) ==
    \E j \in BeginValues(k) :
        Values[j].kind = "str" /\ Strip(Values[j].s) # <<>>

\* the instruction words collected from the last `begin` up to the j-th value
WordsThrough(j) ==
    Concat([i \in 1..j |->
              IF i > LastBegin(j + 1) /\ Values[i].kind = "FieldCode"
              THEN Split(Strip(Values[i].text))
              ELSE IF i > LastBegin(j + 1) /\ Values[i].kind = "tuple"
              THEN Split(Strip(Values[i].field_code.text))
              ELSE <<>>])

\* an instruction fragment met in `begin` state completed a DOCPROPERTY
\* instruction, whose placeholder was emitted
PropertyInBegin(k) ==
    \E j \in BeginValues(k) :
        /\ Values[j].kind = "FieldCode"
        /\ Len(WordsThrough(j)) > 1
        /\ WordsThrough(j)[1] = <<"DOCPROPERTY">>

AtString == AtValue /\ Val.kind = "str"

FieldExample(a, b) ==
    <<[kind |-> "FieldChar", fldCharType |-> "begin"], Str(a),
      [kind |-> "FieldChar", fldCharType |-> "separate"], Str(b),
      [kind |-> "FieldChar", fldCharType |-> "end"]>>

Rendered(vals) ==
    pc = "idle" /\ Len(body) = 1 /\ Len(body_lst) = 1 /\ Values = vals

-----------------------------------------------------------------------------
(* C1, as amended: a text fragment met in `begin` state is always emitted; *)
(* once a fragment with a non-blank character was met in `begin` state of  *)
(* a field, every text fragment met in `separate` state of that field is   *)
(* suppressed (a blank-only fragment is emitted but does not suppress).    *)
(* So begin -> "A" -> separate -> "B" -> end contains A and not B.         *)
C1_BeginTextPreferred ==
    /\ [][(AtString /\ StateAt(pos) = "begin" => text' = text \o Val.s)
          /\ (AtString /\ StateAt(pos) = "separate"
                /\ NonBlankTextInBegin(pos) => text' = text)]_vars
    /\ [](Rendered(FieldExample(<<"A">>, <<"B">>))
            => /\ is_string(body_lst[1])
               /\ Contains(body_lst[1].s, "A")
               /\ ~Contains(body_lst[1].s, "B"))

C1_Witness ==
    /\ Rendered(FieldExample(<<"A">>, <<"B">>))
    /\ body_lst[1] = Str(<<"\n", "A">>)

(* C1 as claimed: whatever the fragment met in `begin` state is, also a    *)
(* blank-only one, the `separate` text of the field is suppressed           *)
C1_AnyBeginTextSuppresses ==
    \A a \in {<<"A">>, <<" ">>} :
        Rendered(FieldExample(a, <<"B">>))
            => ~(is_string(body_lst[1]) /\ Contains(body_lst[1].s, "B"))

(* C2, as amended: when nothing was emitted in `begin` state of a field    *)
(* that sets the flag (no text fragment with a non-blank character and no  *)
(* DOCPROPERTY placeholder completed by an instruction fragment), every    *)
(* text fragment met in `separate` state is emitted, in order; a text      *)
(* fragment met in state `outer` or `end` is always emitted.               *)
C2_SeparateTextEmitted ==
    [][(AtString /\ StateAt(pos) = "separate"
          /\ ~NonBlankTextInBegin(pos) /\ ~PropertyInBegin(pos)
          => text' = text \o Val.s)
       /\ (AtString /\ StateAt(pos) \in {"outer", "end"}
          => text' = text \o Val.s)]_vars

C2_Witness ==
    /\ Rendered(<<[kind |-> "FieldChar", fldCharType |-> "begin"],
                  [kind |-> "FieldChar", fldCharType |-> "separate"],
                  Str(<<"B">>), Str(<<"A">>),
                  [kind |-> "FieldChar", fldCharType |-> "end"]>>)
    /\ body_lst[1] = Str(<<"\n", "B", "A">>)

(* C2 as claimed: with no text fragment met in `begin` state, every text   *)
(* fragment met in `separate` state is emitted                             *)
C2_NoBeginTextEmitsSeparate ==
    [][AtString /\ StateAt(pos) = "separate" /\ ~TextInBegin(pos)
          => text' = text \o Val.s]_vars

-----------------------------------------------------------------------------
(* The list specification: a run of 'List Paragraph' paragraphs of one     *)
(* numbering id, each with its own raw level                               *)

ListRunParagraphs ==
    {Para(ListParagraph, <<PPr(NumPr(1, l))>>) : l \in 0..MaxLevel}

InitList == InitWith({BulletNumbering})
NextList == Start(ListRunParagraphs, MaxRun) \/ LoopStep \/ Finish
SpecList == InitList /\ [][NextList]_vars

RECURSIVE LeadingSpaces(_)
LeadingSpaces(t) ==
    IF t # <<>> /\ Head(t) = " " THEN 1 + LeadingSpaces(Tail(t)) ELSE 0

\* the depth a rendered list paragraph shows: its indent is 4 x depth spaces
ShownDepth(r) ==
    LeadingSpaces(IF r.s # <<>> /\ Head(r.s) = "\n" THEN Tail(r.s) ELSE r.s)
        \div 4

\* the raw levels of the paragraphs of the container
RawLevels == [i \in 1..Len(body) |-> body[i].kids[1].numPr[1].ilvl]

\* the depths the rendered paragraphs show
ShownDepths == [i \in 1..Len(body_lst) |-> ShownDepth(body_lst[i])]

AllRendered == pc = "idle" /\ Len(body_lst) = Len(body)

(* C3, as amended: from the reset state, seven consecutive list paragraphs *)
(* of one numbering id with raw levels 0,0,1,1,0,2,1 are rendered with     *)
(* list prefixes of depths 0,0,1,1,0,1,1: raw level 2, first met after the *)
(* return to level 0, gets the depth one below it.                         *)
C3_DepthsOfExample ==
    AllRendered /\ RawLevels = <<0, 0, 1, 1, 0, 2, 1>>
        => /\ \A i \in 1..7 : is_string(body_lst[i])
           /\ ShownDepths = <<0, 0, 1, 1, 0, 1, 1>>

C3_Witness ==
    /\ AllRendered
    /\ RawLevels = <<0, 0, 1, 1, 0, 2, 1>>
    /\ body_lst[6] = Str(<<" ", " ", " ", " ", "*">>)

(* C3 as claimed: the depths shown are 0,0,1,1,0,2,1 *)
C3_DepthsAsClaimed ==
    AllRendered /\ RawLevels = <<0, 0, 1, 1, 0, 2, 1>>
        => ShownDepths = <<0, 0, 1, 1, 0, 2, 1>>

\* the positions before n of the log whose raw level is that of position n
EarlierSame(log, n) == {m \in 1..(n - 1) : log[m].ilvl = log[n].ilvl}

\* the last list paragraph returns to a raw level met earlier in the run
ReturnsToEarlier(log) ==
    /\ Len(log) >= 2
    /\ log[Len(log)].ilvl < log[Len(log) - 1].ilvl
    /\ EarlierSame(log, Len(log)) # {}

(* C4: in a run of consecutive list paragraphs, a paragraph whose raw      *)
(* level is lower than the previous list paragraph's, and was met earlier  *)
(* in the run, has the depth recorded for that raw level: the depth        *)
(* derived is the one the level had when last met, and the prefix rendered *)
(* shows it.                                                               *)
C4_DecreaseRestoresDepth ==
    pc = "idle" /\ ReturnsToEarlier(ilvl_log)
        => LET n == Len(ilvl_log)
               m == MaxOf(EarlierSame(ilvl_log, n))
           IN /\ Len(ilvl_log) = Len(body_lst)
              /\ ilvl_log[n].actual = ilvl_log[m].actual
              /\ is_string(body_lst[n])
              /\ ShownDepth(body_lst[n]) = ilvl_log[m].actual
              /\ saved_ilvl_map[ilvl_log[n].ilvl] = ilvl_log[m].actual

\* raw levels 0,1,2 then back to 0: the depth of the first paragraph again
C4_Witness ==
    /\ pc = "idle"
    /\ Len(ilvl_log) = 4
    /\ [i \in 1..4 |-> ilvl_log[i].ilvl] = <<0, 1, 2, 0>>
    /\ ilvl_log[4].actual = 0
    /\ body_lst[4] = Str(<<"*">>)

-----------------------------------------------------------------------------
(* The numbering specification: paragraphs of the list style and of        *)
(* another style, with or without a w:pPr child, with or without a         *)
(* numbering reference of numId 1 or 0                                     *)

NumRefs == {<<>>} \cup {NumPr(n, l) : n \in {0, 1}, l \in 0..MaxLevel}

NumKids == {<<>>} \cup {<<PPr(r)>> : r \in NumRefs}

NumParagraphs == {Para(n, k) : n \in {ListParagraph, Normal}, k \in NumKids}

InitNum == InitWith({BulletNumbering, ZeroNumbering, SparseNumbering})
NextNum == Start(NumParagraphs, MaxParas) \/ LoopStep \/ Finish
SpecNum == InitNum /\ [][NextNum]_vars

HasPPr(p) == p.kids # <<>> /\ p.kids[1].tag = "w:pPr"

\* the numbering reference of a paragraph's own properties, if any
OwnNumPr(p) == IF HasPPr(p) THEN p.kids[1].numPr ELSE <<>>

\* a paragraph of another style than the list style has been rendered
OtherStyleRendered ==
    /\ pc = "idle"
    /\ body # <<>>
    /\ cur.style.name # ListParagraph

(* C5 as claimed, for the paragraphs that have no numbering reference of   *)
(* their own: once a paragraph whose style is not 'List Paragraph' has     *)
(* been rendered, with or without a w:pPr child, the numbering state is    *)
(* the initial one (none, -1, empty, -1).                                  *)
C5_ResetByAnyOtherStyle ==
    OtherStyleRendered /\ OwnNumPr(cur) = <<>> => NsNow = NsInit

\* a step that begins the rendering of a paragraph
BeginStep == pc = "idle" /\ pc' # "idle"

\* the numbering reference in effect for the paragraph being begun: its
\* own, or the one saved by the previous list paragraph
EffectiveNumPr ==
    IF OwnNumPr(cur') # <<>> THEN OwnNumPr(cur')
    ELSE IF cur'.style.name = ListParagraph THEN saved_numPr ELSE <<>>

HasListMarker(r) ==
    is_string(r) /\ \E i \in 1..Len(r.s) : r.s[i] \in {"*", "#"}

(* C6: a non-heading paragraph whose numbering reference, its own or the   *)
(* one inherited from the previous list paragraph, has numId 0 gets the    *)
(* empty prefix whatever its raw level and the numbering part, no numId is *)
(* looked up and nothing is raised; its rendered text has no list marker.  *)
C6_NumIdZeroNoNumbering ==
    /\ [][BeginStep /\ HasPPr(cur') /\ LevelAndSpecial(cur'.style.name).level = 0
            /\ EffectiveNumPr # <<>> /\ EffectiveNumPr[1].numId = 0
          => /\ raised' = <<>>
             /\ pc' = "loop"
             /\ looked_up' = <<>>
             /\ markdown_lst' # <<>>
             /\ markdown_lst'[1] = Str(<<>>)
             /\ saved_numPr' = EffectiveNumPr
             /\ saved_ilvl_actual' = ClearSaved(cur'.style.name, NsNow)
                                        .saved_ilvl_actual]_vars
    /\ [](pc = "idle" /\ body # <<>> /\ HasPPr(cur)
            /\ saved_numPr # <<>> /\ saved_numPr[1].numId = 0
          => ~HasListMarker(body_lst[Len(body_lst)]))

\* numId 0 inherited from the previous list paragraph, in a numbering part
\* that defines numId 0
C6_Witness ==
    /\ pc = "idle"
    /\ numbering = ZeroNumbering
    /\ Len(body) = 2
    /\ body[1].style.name = ListParagraph
    /\ OwnNumPr(body[1]) = NumPr(0, 1)
    /\ body[2].style.name = ListParagraph
    /\ HasPPr(body[2]) /\ OwnNumPr(body[2]) = <<>>
    /\ looked_up = <<>>
    /\ body_lst = <<Str(<<"\n", " ", "{", ".", "unnumbered", "}">>), NoneValue>>

-----------------------------------------------------------------------------
(* The heading specification: paragraphs of heading styles and of other    *)
(* styles. The style of a paragraph is named by its w:pPr child, so each   *)
(* has one; with or without a numbering reference, with or without a left  *)
(* indent of half an inch (457200 EMU) in the style                        *)

HeadingStyles ==
    {HeadingN("1"), HeadingN("2"), HeadingN("3"), AnnexHeading,
     AppendixHeading, AnnexN("2"), Normal}

HeadingParagraphs ==
    {[tag |-> "w:p",
      style |-> [name |-> n, left_indent |-> i, first_line_indent |-> <<>>],
      kids |-> <<PPr(r)>>] :
        n \in HeadingStyles, i \in {<<>>, <<457200>>},
        r \in {<<>>, NumPr(1, 0), NumPr(0, 0)}}

InitHeading == InitWith({BulletNumbering})
NextHeading == Start(HeadingParagraphs, MaxHeadings) \/ LoopStep \/ Finish
SpecHeading == InitHeading /\ [][NextHeading]_vars

\* the depth the claim gives each heading style
ClaimedDepth ==
    (HeadingN("1") :> 1) @@ (HeadingN("2") :> 2) @@ (HeadingN("3") :> 3)
        @@ (AnnexHeading :> 1) @@ (AppendixHeading :> 1) @@ (AnnexN("2") :> 2)

\* the classification the claim gives each heading style
ClaimedClass ==
    (HeadingN("1") :> <<>>) @@ (HeadingN("2") :> <<>>)
        @@ (HeadingN("3") :> <<>>) @@ (AnnexHeading :> <<".", "annex">>)
        @@ (AppendixHeading :> <<".", "appendix">>) @@ (AnnexN("2") :> <<>>)

RECURSIVE Count(_, _)
Count(t, tok) ==
    IF t = <<>> THEN 0
    ELSE (IF Head(t) = tok THEN 1 ELSE 0) + Count(Tail(t), tok)

\* the class tokens of annex and appendix in a text
ClassTokens(t) == SelectSeq(t, LAMBDA x : x \in {"annex", "appendix"})

\* the text of a heading of depth n and class c, for a numbering reference r
HeadingText(n, c, r) ==
    <<"\n">> \o Rep(<<"#">>, n)
        \o (IF c # <<>> \/ (r # <<>> /\ r[1].numId = 0)
            THEN <<" ", "{">> \o c
                 \o (IF c # <<>> /\ r # <<>> /\ r[1].numId = 0
                     THEN <<" ">> ELSE <<>>)
                 \o (IF r # <<>> /\ r[1].numId = 0
                     THEN <<".", "unnumbered">> ELSE <<>>)
                 \o <<"}">>
            ELSE <<>>)

(* C7: a paragraph styled 'Heading N' (N >= 1) gets the marker of N '#'    *)
(* and a space whatever numbering reference it has, without a lookup;      *)
(* 'Annex Heading' and 'Appendix Heading' get the depth-1 marker and the   *)
(* class 'annex' resp. 'appendix', 'Heading 1' the depth-1 marker and no   *)
(* such class, and a heading deeper than 1 never has one. The rendered     *)
(* text of an unindented paragraph is the marker and the class suffix.     *)
C7_HeadingMarkerAndClass ==
    pc \in {"loop", "idle"} /\ body # <<>>
        /\ cur.style.name \in DOMAIN ClaimedDepth
        => LET n == ClaimedDepth[cur.style.name]
               c == ClaimedClass[cur.style.name]
               pp == cur.kids[1]
           IN /\ raised = <<>>
              /\ markdown_lst[1] = Str(Rep(<<"#">>, n) \o <<" ">>)
              /\ looked_up = <<>>
              /\ ClassTokens(PPrMarkdownSuffix(pp, cur.style.name))
                    = ClassTokens(c)
              /\ n > 1 => ClassTokens(PPrMarkdownSuffix(pp, cur.style.name))
                             = <<>>
              /\ pc = "idle"
                    => /\ is_string(body_lst[Len(body_lst)])
                       /\ Count(body_lst[Len(body_lst)].s, "#") = n
                       /\ Indent(cur) = <<>>
                            => body_lst[Len(body_lst)]
                                   = Str(HeadingText(n, c, pp.numPr))

\* an 'Annex Heading' with a numbering reference of its own, rendered after
\* a 'Heading 1'
C7_Witness ==
    /\ pc = "idle"
    /\ Len(body) = 2
    /\ body[1].style.name = HeadingN("1")
    /\ body_lst[1] = Str(<<"\n", "#">>)
    /\ body[2].style.name = AnnexHeading
    /\ body[2].kids[1].numPr = NumPr(1, 0)
    /\ body_lst[2] = Str(<<"\n", "#", " ", "{", ".", "annex", "}">>)

-----------------------------------------------------------------------------
(* The bookmark specification: paragraphs that start with one or two       *)
(* w:bookmarkStart children, of two names and two nodes                    *)

BookmarkStartOf(name, id) ==
    [tag |-> "w:bookmarkStart", name |-> name, id |-> id]

BookmarkStarts == {BookmarkStartOf(n, i) : n \in {"a", "b"}, i \in {1, 2}}

BookmarkParagraphs ==
    {Para(Normal, k) : k \in SeqsUpTo(BookmarkStarts, 2) \ {<<>>}}

InitBookmark == InitWith({BulletNumbering})
NextBookmark == Start(BookmarkParagraphs, MaxParas) \/ LoopStep \/ Finish
SpecBookmark == InitBookmark /\ [][NextBookmark]_vars

\* the positions of the registrations made under a name
RegisteredAt(name) == {i \in 1..Len(reg_log) : reg_log[i].name = name}

MinOf(S) == CHOOSE x \in S : \A y \in S : x <= y

-----------------------------------------------------------------------------
(* The items specification: paragraphs of plain, list, code and ignored    *)
(* styles, the plain one with or without a left indent of half an inch in  *)
(* the style, whose children are paragraph properties with a numbering     *)
(* reference and elements of a tag no class is registered for              *)

\* an element of an unregistered tag, with a bookmark below it
Unregistered ==
    [tag |-> "w:customXml", kids |-> <<BookmarkStartOf("c", 3)>>]

ItemKids == {Unregistered, PPr(NumPr(1, 0))}

ItemStyles ==
    {StyleOf(n) : n \in {Normal, ListParagraph, Code, Toc1, TableOfFigures}}
        \cup {[StyleOf(Normal) EXCEPT !.left_indent = <<457200>>]}

ItemParagraphs ==
    {[tag |-> "w:p", style |-> st, kids |-> k] :
        st \in ItemStyles, k \in SeqsUpTo(ItemKids, MaxItems)}

InitItems == InitWith({BulletNumbering})
NextItems == Start(ItemParagraphs, MaxHeadings) \/ LoopStep \/ Finish
SpecItems == InitItems /\ [][NextItems]_vars

HasUnregistered(p) ==
    \E i \in 1..Len(p.kids) : ClassOf(p.kids[i].tag) = "Undefined"

(* C9 as claimed: a child whose tag has no registered class never aborts   *)
(* rendering: the rendering of a paragraph with such a child, at any       *)
(* position, raises nothing, and nothing below the child is registered.    *)
C9_UnregisteredNeverAborts ==
    HasUnregistered(cur)
        => /\ raised = <<>>
           /\ pc # "raised"
           /\ "c" \notin DOMAIN bookmarks

\* a text that is empty once placeholders and whitespace are removed
OnlyBlank(t) ==
    \A i \in 1..Len(t) : t[i] \in Whitespace \/ IsPlaceholder(t[i])

\* the rendering of a paragraph returns
Returns == pc = "loop" /\ pc' = "idle"

(* C10: a paragraph whose style matches 'toc N' or 'table of figures', or  *)
(* whose text after all transforms is empty once placeholders and          *)
(* whitespace are removed, returns no string, and the joined output of its *)
(* container is what it was without it; any other paragraph returns its    *)
(* text. The previous style name is updated in both cases.                 *)
C10_DiscardedParagraph ==
    [][Returns
        => /\ previous_style_name' = <<style_name>>
           /\ IF IgnoredStyle(style_name) \/ OnlyBlank(FinalText)
              THEN /\ body_lst' = Append(body_lst, NoneValue)
                   /\ ~is_string(body_lst'[Len(body_lst')])
                   /\ Joined(body_lst') = Joined(body_lst)
              ELSE /\ body_lst' = Append(body_lst, Str(FinalText))
                   /\ Joined(body_lst') = Joined(body_lst) \o FinalText]_vars

\* an indented paragraph without text after a list item: only the list
\* item is in the output
C10_Witness ==
    /\ pc = "idle"
    /\ Len(body) = 2
    /\ body[2].style.name = Normal
    /\ body[2].style.left_indent # <<>>
    /\ body[2].kids = <<Unregistered>>
    /\ body_lst = <<Str(<<"\n", "*">>), NoneValue>>
    /\ Joined(body_lst) = <<"\n", "*">>
    /\ previous_style_name = <<<<"normal">>>>

-----------------------------------------------------------------------------
\* the lower-cased style name of the i-th paragraph of the container
StyleAt(i) == Lower(body[i].style.name)

\* a rendered text that starts with a newline
StartsWithNewline(r) == r.s # <<>> /\ Head(r.s) = "\n"

(* C11: when the rendering of a paragraph completes, the previous style    *)
(* name is that paragraph's lower-cased style name, also when the          *)
(* paragraph is discarded; a paragraph kept right after a discarded one    *)
(* gets its newline decided against the discarded paragraph's style.       *)
C11_PreviousStyleOfDiscarded ==
    /\ [][Returns => previous_style_name' = <<Lower(cur.style.name)>>]_vars
    /\ [](pc = "idle" /\ Len(body_lst) >= 2
            /\ ~is_string(body_lst[Len(body_lst) - 1])
            /\ is_string(body_lst[Len(body_lst)])
          => (StartsWithNewline(body_lst[Len(body_lst)])
                <=> ~(StyleAt(Len(body) - 1) \in no_newline_styles
                      /\ StyleAt(Len(body)) \in no_newline_styles)))

\* a list item right after a discarded code paragraph gets no newline,
\* though no paragraph was kept before it
C11_Witness ==
    /\ pc = "idle"
    /\ Len(body) = 2
    /\ body[1].style.name = Code
    /\ body[2].style.name = ListParagraph
    /\ body_lst = <<NoneValue, Str(<<"*">>)>>
    /\ previous_style_name = <<<<"list", " ", "paragraph">>>>

-----------------------------------------------------------------------------
(* The two-renders specification: a container of list paragraphs and       *)
(* bookmark paragraphs is rendered, and then rendered again                *)

TwiceParagraphs ==
    ListRunParagraphs \cup {Para(Normal, <<BookmarkStartOf("a", 1)>>)}

InitTwice == InitWith({BulletNumbering})
NextTwice ==
    \/ others = <<>> /\ Start(TwiceParagraphs, MaxParas)
    \/ LoopStep
    \/ Finish
    \/ NewRender
    \/ Replay
SpecTwice == InitTwice /\ [][NextTwice]_vars

\* the second render has got as far as the first
SecondRenderDone ==
    others # <<>> /\ pc = "idle" /\ body = others[1].body

(* C12: the first paragraph of a second render of the same container sees  *)
(* the initial previous style, numbering state and bookmark registry, and  *)
(* the second render produces the text of the first.                       *)
C12_SecondRenderAsFirst ==
    /\ (others # <<>> /\ pc = "idle" /\ body = <<>>)
         => /\ previous_style_name = <<>>
            /\ NsNow = NsInit
            /\ bookmarks = <<>>
    /\ SecondRenderDone => Joined(body_lst) = Joined(others[1].body_lst)

-----------------------------------------------------------------------------
(* The turns specification: two containers of list paragraphs and bookmark *)
(* paragraphs are rendered in one process, a paragraph of the one between  *)
(* two paragraphs of the other                                             *)

TurnsParagraphs ==
    {Para(ListParagraph, <<PPr(NumPr(1, 0))>>)}
    \cup {Para(Normal, <<BookmarkStartOf(n, 1)>>) : n \in {"a", "b"}}

InitTurns == InitWith({BulletNumbering})
NextTurns ==
    Start(TurnsParagraphs, MaxEach) \/ LoopStep \/ Finish \/ Switch
SpecTurns == InitTurns /\ [][NextTurns]_vars

\* the names of the w:bookmarkStart children of the paragraphs b
NamesIn(b) ==
    UNION {{b[i].kids[j].name :
               j \in {k \in 1..Len(b[i].kids) :
                        b[i].kids[k].tag = "w:bookmarkStart"}} :
           i \in 1..Len(b)}

(* C13: when the paragraphs of two containers are rendered in turns, each  *)
(* container's results are those it gets when rendered alone (so two       *)
(* containers of the same paragraphs have the same results), and the       *)
(* registry a container sees holds no name of the other container.         *)
C13_TurnsRenderAsAlone ==
    /\ (others # <<>> /\ pc = "idle" /\ body = others[1].body)
         => body_lst = others[1].body_lst
    /\ pc = "idle" => DOMAIN bookmarks \subseteq NamesIn(body)

-----------------------------------------------------------------------------
(* The hyperlink specification: one paragraph of one w:hyperlink, without  *)
(* or with an anchor and a relationship id, in a part with none, one or    *)
(* two relationships; the hyperlink is empty or holds a simple field       *)

SimpleFieldOf(instr) == [tag |-> "w:fldSimple", instr |-> instr]

HyperlinkOf(anchor_, rid_, rels, kids) ==
    [tag |-> "w:hyperlink", anchor |-> anchor_, rid |-> rid_, rels |-> rels,
     kids |-> kids]

LinkTargets == {<<"U">>, <<>>}

LinkRels == UNION {[D -> LinkTargets] : D \in SUBSET {"r1", "r2"}}

LinkParagraphs ==
    {Para(Normal, <<HyperlinkOf(a, r, rels, k)>>) :
        a \in {<<>>, <<<<"a">>>>}, r \in {<<>>, <<"r1">>, <<"r2">>},
        rels \in LinkRels, k \in {<<>>, <<SimpleFieldOf(<<"A">>)>>}}

InitLink == InitWith({BulletNumbering})
NextLink == Start(LinkParagraphs, 1) \/ LoopStep \/ Finish
SpecLink == InitLink /\ [][NextLink]_vars

\* the texts of the hyperlinks of LinkParagraphs
LinkTexts == {<<>>, <<"%", "d", "o", "c", "x", "A", "%">>}

\* the links to the target with a text of LinkTexts
LinksTo(target) ==
    {Str(<<"\n", "<">> \o target \o <<">">>)}
    \cup {Str(<<"\n", "[">> \o t \o <<"]", "(">> \o target \o <<")">>) :
             t \in LinkTexts}

(* C14: a paragraph whose hyperlink carries a relationship id that its     *)
(* part does not have raises and returns no text; a paragraph whose        *)
(* hyperlink has no anchor returns only for a relationship id the part     *)
(* has, and the link it returns has the target of that relationship.       *)
C14_LinkTargetOfRelationship ==
    [][/\ (BeginStep /\ cur'.kids[1].rid # <<>>
             /\ cur'.kids[1].rid[1] \notin DOMAIN cur'.kids[1].rels)
          => (pc' = "raised" /\ raised' # <<>> /\ body_lst' = body_lst)
       /\ (Returns /\ cur.kids[1].anchor = <<>>)
          => /\ cur.kids[1].rid # <<>>
             /\ cur.kids[1].rid[1] \in DOMAIN cur.kids[1].rels
             /\ body_lst'[Len(body_lst')]
                  \in LinksTo(cur.kids[1].rels[cur.kids[1].rid[1]])]_vars

\* a hyperlink of relationship r1 in a part that has r2 only
C14_Witness ==
    /\ pc = "raised"
    /\ raised = <<"AssertionError">>
    /\ cur.kids[1].anchor = <<>>
    /\ cur.kids[1].rid = <<"r1">>
    /\ DOMAIN cur.kids[1].rels = {"r2"}
    /\ body_lst = <<>>

-----------------------------------------------------------------------------
(* The simple field specification: one paragraph of one w:fldSimple whose  *)
(* instruction is made of verbs, a name, a letter and blanks               *)

InstrTokens == {"DOCPROPERTY", "SEQ", "REF", "A", "x", " "}

SimpleParagraphs ==
    {Para(Normal, <<SimpleFieldOf(instr)>>) :
        instr \in SeqsUpTo(InstrTokens, MaxInstr)}

InitSimple == InitWith({BulletNumbering})
NextSimple == Start(SimpleParagraphs, 1) \/ LoopStep \/ Finish
SpecSimple == InitSimple /\ [][NextSimple]_vars

\* an instruction whose first word is none of the three verbs, or that
\* has no word
Unrecognized(instr) ==
    \/ Split(Strip(instr)) = <<>>
    \/ Split(Strip(instr))[1] \notin {<<"DOCPROPERTY">>, <<"SEQ">>, <<"REF">>}

(* C15: a simple field whose instruction has no recognized first word, or  *)
(* no word at all, raises nothing and contributes no text to its           *)
(* paragraph.                                                              *)
C15_UnrecognizedSimpleFieldSilent ==
    (pc # "idle" /\ Unrecognized(cur.kids[1].instr))
      => (raised = <<>> /\ Joined(Flatten(markdown_lst)) = <<>>)

-----------------------------------------------------------------------------
(* The stream specification: one paragraph of one run of field markers,    *)
(* cross-reference instructions (whole, and the verb alone), a text and a  *)
(* page break; the loop runs to its end                                    *)

StreamKids ==
    {FldChar("begin"), FldChar("end"), InstrText(<<"REF", " ", "x">>),
     InstrText(<<"REF">>), TextOf(<<"A">>), [tag |-> "w:br"]}

StreamParagraphs ==
    {Para(Normal, <<RunOf(kids)>>) : kids \in SeqsUpTo(StreamKids, MaxKids)}

InitStream == InitWith({BulletNumbering})
NextStream == Start(StreamParagraphs, 1) \/ LoopStep \/ Finish

\* the statements after the loop are run once the loop has ended: the step
\* that leaves the loop is a step of Finish
AfterLoop == pc = "loop" /\ pos > Len(Values) /\ pc' \in {"idle", "raised"}

\* a started for loop runs its rounds, and the statements after it
SpecStream ==
    InitStream /\ [][NextStream]_vars /\ WF_vars(LoopStep) /\ WF_pc(AfterLoop)

\* every `begin` of the values vs is followed by an `end`
WellFormed(vs) ==
    \A i \in 1..Len(vs) :
       (vs[i].kind = "FieldChar" /\ vs[i].fldCharType = "begin")
         => \E j \in (i + 1)..Len(vs) :
               vs[j].kind = "FieldChar" /\ vs[j].fldCharType = "end"

\* the characters of the texts, the words of the instructions and the
\* tokens the renderer makes
StreamTokens ==
    {"A", "REF", "x", "\n", "[", "]", "{{ref|", "}}", ":::", " ", "new-page"}

(* C16: for a well-formed value stream, every round of the loop takes the  *)
(* next value and raises nothing, the rendering of the paragraph comes to  *)
(* its end, and what it returns is None or a string of text characters     *)
(* and generated tokens.                                                   *)
C16_StreamRendersToText ==
    /\ [][(AtValue /\ WellFormed(Values))
            => (pc' = "loop" /\ raised' = <<>> /\ pos' = pos + 1)]_vars
    /\ ((pc = "loop" /\ WellFormed(Values)) ~> (pc = "idle"))
    /\ [](pc = "idle" /\ body_lst # <<>>
            => \/ body_lst[1] = NoneValue
               \/ /\ is_string(body_lst[1])
                  /\ \A i \in 1..Len(body_lst[1].s) :
                        body_lst[1].s[i] \in StreamTokens)

\* a field of a cross-reference, a text and a page break, rendered
C16_Witness ==
    /\ pc = "idle"
    /\ body # <<>>
    /\ body[1].kids[1].kids =
          <<FldChar("begin"), InstrText(<<"REF", " ", "x">>),
            TextOf(<<"A">>), [tag |-> "w:br"], FldChar("end")>>
    /\ WellFormed(Values)
    /\ body_lst = <<Str(<<"\n", ":::", " ", "new-page", " ", ":::", "\n",
                         ":::", "\n", "[", "A", "]", "[", "{{ref|", "x",
                         "}}", "]">>)>>

-----------------------------------------------------------------------------
(* The collapse specification: the loop over the character attributes      *)
(* (paragraph.py:317-327) on strings of single characters, where a marker  *)
(* is the string of its characters, applied to a text and then to its own  *)
(* result                                                                  *)

\* '{{%s}}' % ch  and  '{{end%s}}' % ch
OpenOf(ch) == <<"{", "{", ch, "}", "}">>
CloseOf(ch) == <<"{", "{", "e", "n", "d", ch, "}", "}">>

\* t.startswith(old)
StartsWith(t, old) == Len(t) >= Len(old) /\ SubSeq(t, 1, Len(old)) = old

\* t.find(old), counted from 1; 0 when old is not in t
Find(t, old) ==
    LET at == {i \in 1..Len(t) : StartsWith(SubSeq(t, i, Len(t)), old)}
    IN IF at = {} THEN 0 ELSE CHOOSE i \in at : \A j \in at : i <= j

RECURSIVE ReplaceStr(_, _, _)
\* t.replace(old, new)
ReplaceStr(t, old, new) ==
    IF t = <<>> THEN <<>>
    ELSE IF StartsWith(t, old)
    THEN new \o ReplaceStr(SubSeq(t, Len(old) + 1, Len(t)), old, new)
    ELSE <<Head(t)>> \o ReplaceStr(Tail(t), old, new)

\* the match of (\s*)(.*?)(\s*)({{endX}}) at the start of r
EmMatchStr(r, close) ==
    IF Find(r, close) = 0 THEN [ok |-> FALSE]
    ELSE LET e == Find(r, close)
             w == LeadingBlanks(r)
             mid == SubSeq(r, w + 1, e - 1)
             g3 == RStrip(mid)
         IN IF Contains(g3, "\n") THEN [ok |-> FALSE]
            ELSE [ok |-> TRUE, g2 |-> SubSeq(r, 1, w), g3 |-> g3,
                  g4 |-> SubSeq(mid, Len(g3) + 1, Len(mid)),
                  rest |-> SubSeq(r, e + Len(close), Len(r))]

RECURSIVE EmSubStr(_, _, _)
\* re.sub(r'({{X}})(\s*)(.*?)(\s*)({{endX}})', r'\2\1\3\5\4', text)
EmSubStr(t, open, close) ==
    IF t = <<>> THEN <<>>
    ELSE IF StartsWith(t, open)
    THEN LET m == EmMatchStr(SubSeq(t, Len(open) + 1, Len(t)), close)
         IN IF m.ok
            THEN m.g2 \o open \o m.g3 \o close \o m.g4
                 \o EmSubStr(m.rest, open, close)
            ELSE <<Head(t)>> \o EmSubStr(Tail(t), open, close)
    ELSE <<Head(t)>> \o EmSubStr(Tail(t), open, close)

\* one round of the loop, for the character attribute ch with the markup md
CollapseOneStr(t, ch, md) ==
    ReplaceStr(
        ReplaceStr(
            ReplaceStr(
                EmSubStr(ReplaceStr(t, CloseOf(ch) \o OpenOf(ch), <<>>),
                         OpenOf(ch), CloseOf(ch)),
                OpenOf(ch) \o CloseOf(ch), <<>>),
            OpenOf(ch), md),
        CloseOf(ch), md)

\* the loop over the items of {'c': backquote, 'i': '*', 'b': '**',
\* 'B': '***'}, in the order written
CollapseEmphasisStr(t) ==
    CollapseOneStr(
        CollapseOneStr(
            CollapseOneStr(
                CollapseOneStr(t, "c", <<Backquote>>),
                "i", <<"*">>),
            "b", <<"*", "*">>),
        "B", <<"*", "*", "*">>)

\* the pieces of the texts: the markers of italic and bold, and plain
\* characters
PassPieces ==
    {OpenOf("i"), CloseOf("i"), OpenOf("b"), CloseOf("b"),
     <<"{", "{">>, <<"}", "}">>, <<"i">>, <<" ">>}

PassTexts == {Concat(ps) : ps \in SeqsUpTo(PassPieces, MaxPieces)}

InitPass ==
    /\ text \in PassTexts
    /\ pc = "pass"
    /\ pos = 0
    /\ previous_style_name = <<>>
    /\ saved_numPr = NsInit.saved_numPr
    /\ saved_ilvl_map = NsInit.saved_ilvl_map
    /\ saved_ilvl_numPr = NsInit.saved_ilvl_numPr
    /\ saved_ilvl_actual = NsInit.saved_ilvl_actual
    /\ bookmarks = <<>>
    /\ clsmap = ImportedClsmap
    /\ stopmap = ImportedStopmap
    /\ register_log = <<>>
    /\ numbering = BulletNumbering
    /\ body = <<>>
    /\ body_lst = <<>>
    /\ others = <<>>
    /\ cur = EmptyParagraph
    /\ style_name = <<>>
    /\ use_div = FALSE
    /\ markdown_lst = <<>>
    /\ state = "outer"
    /\ para_bookmarks = <<>>
    /\ words = <<>>
    /\ anchor = <<>>
    /\ added_begin_text = FALSE
    /\ added_open_bracket = FALSE
    /\ need_page_break = FALSE
    /\ raised = <<>>
    /\ reg_log = <<>>
    /\ looked_up = <<>>
    /\ ilvl_log = <<>>

\* the pass is applied to the text, at most twice; pos counts
Collapse ==
    /\ pc = "pass"
    /\ pos < 2
    /\ text' = CollapseEmphasisStr(text)
    /\ pos' = pos + 1
    /\ UNCHANGED <<class_vars, numbering, body, body_lst, others, pc,
                   frame_vars, state, para_bookmarks, words, anchor,
                   added_begin_text, added_open_bracket, need_page_break,
                   raised, reg_log, looked_up, ilvl_log, registry_vars>>

NextPass == Collapse
SpecPass == InitPass /\ [][NextPass]_vars

(* C17: the emphasis-collapsing pass is idempotent: applied to its own     *)
(* result, it returns that result unchanged.                               *)
C17_CollapseIdempotent ==
    [][(pc = "pass" /\ pos = 1) => text' = text]_vars

-----------------------------------------------------------------------------
\* the last list paragraph of the run has a raw level above the one before
RisesAtEnd(log) ==
    Len(log) >= 2 /\ log[Len(log)].ilvl > log[Len(log) - 1].ilvl

(* C18, as amended: within a run of consecutive list paragraphs the depth  *)
(* counter is incremented every time a raw level greater than the          *)
(* last-seen raw level is met, whether or not that level was met before,   *)
(* and the new depth is recorded for the level in place of any depth       *)
(* recorded for it; an equal raw level leaves the depth as it is.          *)
C18_EveryRiseIncrements ==
    (pc = "idle" /\ Len(ilvl_log) >= 2)
      => LET n == Len(ilvl_log)
         IN /\ RisesAtEnd(ilvl_log)
                 => /\ ilvl_log[n].actual = ilvl_log[n - 1].actual + 1
                    /\ saved_ilvl_actual = ilvl_log[n].actual
                    /\ saved_ilvl_map[ilvl_log[n].ilvl] = ilvl_log[n].actual
            /\ ilvl_log[n].ilvl = ilvl_log[n - 1].ilvl
                 => ilvl_log[n].actual = ilvl_log[n - 1].actual

\* raw levels 0,2,0,1,2: level 2 has depth 1 at first and depth 2 at last
C18_Witness ==
    /\ pc = "idle"
    /\ [i \in 1..Len(ilvl_log) |-> ilvl_log[i].ilvl] = <<0, 2, 0, 1, 2>>
    /\ [i \in 1..Len(ilvl_log) |-> ilvl_log[i].actual] = <<0, 1, 0, 1, 2>>
    /\ saved_ilvl_map[2] = 2
    /\ body_lst[5] = Str(<<" ", " ", " ", " ", " ", " ", " ", " ", "*">>)

(* C18 as claimed: a raw level met again in the run has the depth it had   *)
(* when first met, so the depth recorded for a level never changes         *)
C18_RecordedDepthKept ==
    pc = "idle"
      => \A n \in 1..Len(ilvl_log) :
            \A m \in EarlierSame(ilvl_log, n) :
               ilvl_log[n].actual = ilvl_log[m].actual

-----------------------------------------------------------------------------
(* The registry specification: from the empty maps of the class body of    *)
(* Parented, classes are registered for tags, terminal or not, in any      *)
(* order; the items of a node are read off the maps                        *)

RegClasses == {"Paragraph", "ParagraphProperties", "Ignored"}
RegTags == {"w:p", "w:pPr"}

\* the tags of the children of a node: registered ones and one that is not
KidTags == RegTags \cup {"w:customXml"}

InitRegistry ==
    /\ clsmap = <<>>
    /\ stopmap = <<>>
    /\ register_log = <<>>
    /\ previous_style_name = <<>>
    /\ saved_numPr = NsInit.saved_numPr
    /\ saved_ilvl_map = NsInit.saved_ilvl_map
    /\ saved_ilvl_numPr = NsInit.saved_ilvl_numPr
    /\ saved_ilvl_actual = NsInit.saved_ilvl_actual
    /\ bookmarks = <<>>
    /\ numbering = BulletNumbering
    /\ body = <<>>
    /\ body_lst = <<>>
    /\ others = <<>>
    /\ pc = "idle"
    /\ cur = EmptyParagraph
    /\ style_name = <<>>
    /\ use_div = FALSE
    /\ markdown_lst = <<>>
    /\ pos = 1
    /\ text = <<>>
    /\ state = "outer"
    /\ para_bookmarks = <<>>
    /\ words = <<>>
    /\ anchor = <<>>
    /\ added_begin_text = FALSE
    /\ added_open_bracket = FALSE
    /\ need_page_break = FALSE
    /\ raised = <<>>
    /\ reg_log = <<>>
    /\ looked_up = <<>>
    /\ ilvl_log = <<>>

\* a call cls.register(tag, stop)
RegisterCall ==
    /\ Len(register_log) < MaxRegs
    /\ \E cls \in RegClasses, tag \in RegTags, stop \in BOOLEAN :
          /\ clsmap' = RegisterClass(clsmap, stopmap, cls, tag, stop).clsmap
          /\ stopmap' = RegisterClass(clsmap, stopmap, cls, tag, stop).stopmap
          /\ register_log' =
                Append(register_log,
                       [cls |-> cls, tag |-> tag, stop |-> stop])
    /\ UNCHANGED <<class_vars, numbering, body, body_lst, others, pc,
                   frame_vars, pos, loop_vars, raised, reg_log, looked_up,
                   ilvl_log>>

NextRegistry == RegisterCall
SpecRegistry == InitRegistry /\ [][NextRegistry]_vars

\* the calls made for a tag, and for a class
CallsForTag(tag) ==
    {i \in 1..Len(register_log) : register_log[i].tag = tag}
CallsForClass(cls) ==
    {i \in 1..Len(register_log) : register_log[i].cls = cls}

\* the class the most recent call for the tag names, or the stand-in
LastClass(tag) ==
    IF CallsForTag(tag) = {} THEN "Undefined"
    ELSE register_log[MaxOf(CallsForTag(tag))].cls

\* the most recent call for the class made it terminal
LastStop(cls) ==
    CallsForClass(cls) # {} /\ register_log[MaxOf(CallsForClass(cls))].stop

-----------------------------------------------------------------------------
(* The newline specification: paragraphs of the three no-newline styles,   *)
(* of the default style and of the div style, empty or with the text of a  *)
(* simple field                                                            *)

NewlineStyles == {Code, ListParagraph, PlainText, Normal, Subheading}

NewlineParagraphs ==
    {Para(name, kids) :
        name \in NewlineStyles,
        kids \in {<<>>, <<SimpleFieldOf(<<"A">>)>>}}

InitNewline == InitWith({BulletNumbering})
NextNewline == Start(NewlineParagraphs, MaxParas) \/ LoopStep \/ Finish
SpecNewline == InitNewline /\ [][NextNewline]_vars

\* the last paragraph rendered was kept and its style is not the div style
LastKept ==
    /\ pc = "idle"
    /\ body_lst # <<>>
    /\ is_string(body_lst[Len(body_lst)])
    /\ StyleAt(Len(body)) # <<"subheading">>

(* C20: a kept paragraph that is not of the div style starts without a     *)
(* newline if and only if the paragraph rendered before it and the         *)
(* paragraph itself are both of a no-newline style; in every other case,   *)
(* that of the first paragraph included, it starts with exactly one        *)
(* newline.                                                                *)
C20_NewlineUnlessBothNoNewline ==
    LastKept
      => LET n == Len(body_lst)
             both == /\ n >= 2
                     /\ StyleAt(n - 1) \in no_newline_styles
                     /\ StyleAt(n) \in no_newline_styles
         IN IF both THEN ~StartsWithNewline(body_lst[n])
            ELSE /\ StartsWithNewline(body_lst[n])
                 /\ ~StartsWithNewline(Str(Tail(body_lst[n].s)))

\* a plain text paragraph after a default one, then a list paragraph
C20_Witness ==
    /\ LastKept
    /\ [i \in 1..Len(body) |-> body[i].style.name]
         = <<Normal, PlainText, ListParagraph>>
    /\ \A i \in 1..3 : is_string(body_lst[i])
    /\ StartsWithNewline(body_lst[1])
    /\ StartsWithNewline(body_lst[2])
    /\ body_lst[3] = Str(<<"%", "d", "o", "c", "x", "A", "%">>)

-----------------------------------------------------------------------------
(* The cross-reference specification: a container of paragraphs, each one  *)
(* a complex REF field (begin, the instruction, separate, the texts, end)  *)
(* or one hyperlink with an anchor and the same texts in a run             *)

RefNames == {<<"x">>, <<"y">>}

RefTexts == SeqsUpTo({<<"A">>, <<"[">>}, MaxEach)

\* the runs' texts as w:t elements
TextKids(ts) == [i \in 1..Len(ts) |-> TextOf(ts[i])]

RefField(name, ts) ==
    Para(Normal,
         <<RunOf(<<FldChar("begin"), InstrText(<<"REF", " ">> \o name),
                   FldChar("separate")>> \o TextKids(ts)
                 \o <<FldChar("end")>>)>>)

RefLink(name, ts) ==
    Para(Normal, <<HyperlinkOf(<<name>>, <<>>, <<>>, <<RunOf(TextKids(ts))>>)>>)

RefParagraphs ==
    {RefField(n, ts) : n \in RefNames, ts \in RefTexts}
      \cup {RefLink(n, ts) : n \in RefNames, ts \in RefTexts}

InitRef == InitWith({BulletNumbering})
NextRef == Start(RefParagraphs, MaxEach) \/ LoopStep \/ Finish
SpecRef == InitRef /\ [][NextRef]_vars

(* C21: the field begin, 'REF name', separate, text T, end renders as      *)
(* '[T][{{ref|name}}]', as the hyperlink with the text T and the anchor    *)
(* name does; with no text after the bracket it renders as                 *)
(* '[{{ref|name}}]'.                                                       *)
C21_RefFieldAsAnchoredHyperlink ==
    \A n \in RefNames, ts \in RefTexts :
       (pc = "idle" /\ Len(body_lst) = 2
          /\ body = <<RefField(n, ts), RefLink(n, ts)>>)
         => IF Concat(ts) = <<>>
            THEN body_lst[1] = Str(<<"\n", "[">> \o RefAnchor(n) \o <<"]">>)
            ELSE /\ body_lst[1] = body_lst[2]
                 /\ body_lst[1] = Str(<<"\n", "[">> \o Concat(ts)
                                      \o <<"]", "[">> \o RefAnchor(n)
                                      \o <<"]">>)

-----------------------------------------------------------------------------
(* The registry specification: paragraphs of a cross-reference field to    *)
(* one of two names, of a bookmark, or of both in either order             *)

MarkNames == {"x", "y"}

Marks == {<<>>} \cup {<<BookmarkStartOf(n, 1)>> : n \in MarkNames}

RefRun(n) ==
    RunOf(<<FldChar("begin"), InstrText(<<"REF", " ", n>>),
            FldChar("separate"), TextOf(<<"A">>), FldChar("end")>>)

MarkParagraphs ==
    {Para(Normal, pre \o f \o post) :
        pre \in Marks, post \in Marks,
        f \in {<<>>} \cup {<<RefRun(n)>> : n \in MarkNames}}

InitMark == InitWith({BulletNumbering})
NextMark == Start(MarkParagraphs, MaxEach) \/ LoopStep \/ Finish
SpecMark == InitMark /\ [][NextMark]_vars

\* the last paragraph rendered holds the field of a reference to n
LastRefersTo(n) ==
    /\ pc = "idle"
    /\ body # <<>>
    /\ Len(body_lst) = Len(body)
    /\ \E i \in 1..Len(body[Len(body)].kids) :
          body[Len(body)].kids[i] = RefRun(n)

(* C22: whatever bookmarks are registered, before the field, after it or   *)
(* not at all, a cross-reference to the name N renders with the            *)
(* placeholder {{ref|N}}, to the same text, and nothing is raised.         *)
C22_RefIndependentOfRegistry ==
    /\ raised = <<>>
    /\ \A n \in MarkNames :
          LastRefersTo(n)
            => body_lst[Len(body)]
                 = Str(<<"\n", "[", "A", "]", "[", "{{ref|", n, "}}", "]">>)

\* a reference to x rendered with x registered by the paragraph before
C22_Witness ==
    /\ LastRefersTo("x")
    /\ Len(body) = 2
    /\ body[1] = Para(Normal, <<BookmarkStartOf("x", 1)>>)
    /\ body[2] = Para(Normal, <<RefRun("x")>>)
    /\ "x" \in DOMAIN bookmarks
    /\ is_string(body_lst[2])

-----------------------------------------------------------------------------
(* The indent specification: one paragraph of the default style with a     *)
(* simple field, whose style and whose own properties (if it has any) each *)
(* set no left or first-line indent, one of zero, or one of some width     *)

\* lengths in English Metric Units: an eighth and a quarter of an inch
OwnIndents == {<<>>, <<0>>, <<114300>>}
StyleIndents == {<<>>, <<0>>, <<228600>>}

IndentPPrs ==
    {[PPr(<<>>) EXCEPT !.ind_left = l, !.first_line_indent = f] :
        l \in OwnIndents, f \in OwnIndents}

IndentParagraphs ==
    {[tag |-> "w:p",
      style |-> [name |-> Normal, left_indent |-> l, first_line_indent |-> f],
      kids |-> pp \o <<SimpleFieldOf(<<"A">>)>>] :
        l \in StyleIndents, f \in StyleIndents,
        pp \in {<<>>} \cup {<<x>> : x \in IndentPPrs}}

InitIndent == InitWith({BulletNumbering})
NextIndent == Start(IndentParagraphs, 1) \/ LoopStep \/ Finish
SpecIndent == InitIndent /\ [][NextIndent]_vars

\* the paragraph's own value if it sets one, else the style's, else zero
SetOrInherited(own, inherited) ==
    IF own # <<>> THEN own[1]
    ELSE IF inherited # <<>> THEN inherited[1]
    ELSE 0

ClaimedIndent(p) ==
    LET spaces ==
          Spaces(SetOrInherited(DirectLeftIndent(p), p.style.left_indent)
                 + SetOrInherited(DirectFirstLineIndent(p),
                                  p.style.first_line_indent))
    IN IF spaces # 0 THEN <<IndentToken(spaces)>> ELSE <<>>

(* C23: the left indent and the first-line indent that give the indent     *)
(* marker of a paragraph are the values the paragraph sets itself, a zero  *)
(* included, the style's values where the paragraph sets none, and zero    *)
(* where neither sets one.                                                 *)
C23_DirectIndentFirst ==
    (pc = "idle" /\ body # <<>> /\ Len(body_lst) = Len(body))
      => body_lst[1] = Str(<<"\n">> \o ClaimedIndent(body[1])
                           \o <<"%", "d", "o", "c", "x", "A", "%">>)

-----------------------------------------------------------------------------
(* The placeholder specification: one paragraph with a custom-property or  *)
(* sequence field of a name of letters, separators and quotes, with or     *)
(* without a switch after the name, as a simple field or as a complex      *)
(* field with the instruction in one w:instrText                           *)

NameChars == {"B", "n", "-", "_", "\""}

FieldNames == SeqsUpTo(NameChars, MaxInstr) \ {<<>>}

Instructions ==
    {<<verb, " ">> \o name \o switch :
        verb \in {"DOCPROPERTY", "SEQ"}, name \in FieldNames,
        switch \in {<<>>, <<" ", "M">>}}

SimpleForm(instr) == Para(Normal, <<SimpleFieldOf(instr)>>)

ComplexForm(instr) ==
    Para(Normal,
         <<RunOf(<<FldChar("begin"), InstrText(instr), FldChar("end")>>)>>)

PlaceParagraphs ==
    {SimpleForm(i) : i \in Instructions}
      \cup {ComplexForm(i) : i \in Instructions}

InitPlace == InitWith({BulletNumbering})
NextPlace == Start(PlaceParagraphs, 1) \/ LoopStep \/ Finish
SpecPlace == InitPlace /\ [][NextPlace]_vars

RECURSIVE Camel(_)
\* a separator and the character after it give that character in upper
\* case
Camel(s) ==
    IF Len(s) >= 2 /\ s[1] \in {"-", "_", " "}
    THEN <<UpperChar(s[2])>> \o Camel(SubSeq(s, 3, Len(s)))
    ELSE IF s = <<>> THEN <<>>
    ELSE <<s[1]>> \o Camel(Tail(s))

\* the name without the double quote before it and the one after it
Bare(name) ==
    LET from == IF name[1] = "\"" THEN 2 ELSE 1
        to == IF Len(name) >= from /\ name[Len(name)] = "\""
              THEN Len(name) - 1 ELSE Len(name)
    IN SubSeq(name, from, to)

ClaimedPlaceholder(verb, name) ==
    LET full == IF verb = "SEQ"
                THEN <<"d", "o", "c", "x", "-", "s", "e", "q", "-">> \o name
                ELSE Bare(name)
    IN <<"%">> \o Camel([i \in 1..Len(full) |-> LowerChar(full[i])])
       \o <<"%">>

(* C24: a DOCPROPERTY or SEQ instruction of two words or more renders to   *)
(* the same placeholder as a simple field and as a complex field with the  *)
(* instruction in one element: '%', the mapped name, '%', where a property *)
(* name loses the double quotes around it, a counter gets the prefix       *)
(* docx-seq-, and the name is lower-cased and each separator with the      *)
(* character after it becomes that character in upper case.                *)
C24_SimpleAndComplexPlaceholder ==
    /\ raised = <<>>
    /\ \A verb \in {"DOCPROPERTY", "SEQ"}, name \in FieldNames,
          switch \in {<<>>, <<" ", "M">>} :
          LET instr == <<verb, " ">> \o name \o switch
          IN (pc = "idle" /\ body_lst # <<>>
                /\ body[1] \in {SimpleForm(instr), ComplexForm(instr)})
               => body_lst[1]
                    = Str(<<"\n">> \o ClaimedPlaceholder(verb, name))

\* the complex field of the quoted name B-n, rendered
C24_Witness ==
    /\ pc = "idle"
    /\ body = <<ComplexForm(<<"DOCPROPERTY", " ", "B", "-", "n", " ", "M">>)>>
    /\ body_lst = <<Str(<<"\n", "%", "b", "N", "%">>)>>

-----------------------------------------------------------------------------
(* The depth map on a fall of the raw level, in the list specification     *)

\* the raw level of the paragraph that the step starts to render
NextRawLevel == body'[Len(body')].kids[1].numPr[1].ilvl

(* C25: in a run of list paragraphs after a reset, a paragraph whose raw   *)
(* level is lower than that of the paragraph before it finds its raw level *)
(* in the depth map, and the depth is resolved without an error.           *)
C25_FallFindsRecordedLevel ==
    [][(BeginStep /\ NextRawLevel < saved_ilvl_numPr)
         => (NextRawLevel \in DOMAIN saved_ilvl_map /\ raised' = <<>>)]_vars

-----------------------------------------------------------------------------
(* C26: after every list paragraph rendered with a list prefix, its depth  *)
(* d and its raw level r satisfy 0 <= d <= r, every depth recorded in the  *)
(* depth map for a raw level k is between 0 and k, and a paragraph of a    *)
(* higher raw level than the list paragraph before it is at most one       *)
(* deeper than it.                                                         *)
C26_DepthWithinRawLevel ==
    pc = "idle"
      => /\ \A i \in 1..Len(body_lst) :
               /\ is_string(body_lst[i])
               /\ ShownDepth(body_lst[i]) = ilvl_log[i].actual
               /\ ilvl_log[i].ilvl = RawLevels[i]
               /\ 0 <= ilvl_log[i].actual
               /\ ilvl_log[i].actual <= RawLevels[i]
         /\ \A k \in DOMAIN saved_ilvl_map :
               0 <= saved_ilvl_map[k] /\ saved_ilvl_map[k] <= k
         /\ \A i \in 2..Len(body_lst) :
               RawLevels[i] > RawLevels[i - 1]
                 => ShownDepth(body_lst[i])
                      <= ShownDepth(body_lst[i - 1]) + 1

\* raw levels 0,2,2,0,2 rendered at the depths 0,1,1,0,1
C26_Witness ==
    /\ AllRendered
    /\ RawLevels = <<0, 2, 2, 0, 2>>
    /\ ShownDepths = <<0, 1, 1, 0, 1>>
    /\ saved_ilvl_map[2] = 1

-----------------------------------------------------------------------------
(* The deep list specification: a run of list paragraphs of one numbering  *)
(* id with one raw level more than the list specification has              *)

DeepNumbering ==
    [nums |-> <<1>>,
     fmts |-> [x \in {<<1, l>> : l \in 0..(MaxLevel + 1)} |-> "bullet"]]

DeepRunParagraphs ==
    {Para(ListParagraph, <<PPr(NumPr(1, l))>>) : l \in 0..(MaxLevel + 1)}

InitDeep == InitWith({DeepNumbering})
NextDeep == Start(DeepRunParagraphs, MaxRun) \/ LoopStep \/ Finish
SpecDeep == InitDeep /\ [][NextDeep]_vars

(* C27: of two consecutive list paragraphs of a run, the second is not     *)
(* deeper than the first when its raw level is lower, and as deep as the   *)
(* first when its raw level is the same.                                   *)
C27_DepthFollowsRawLevel ==
    pc = "idle"
      => \A i \in 2..Len(body_lst) :
            /\ RawLevels[i] < RawLevels[i - 1]
                 => ShownDepth(body_lst[i]) <= ShownDepth(body_lst[i - 1])
            /\ RawLevels[i] = RawLevels[i - 1]
                 => ShownDepth(body_lst[i]) = ShownDepth(body_lst[i - 1])

-----------------------------------------------------------------------------
(* C28: a custom-property field adds its placeholder once, however its     *)
(* instruction is split over instruction fragments between `begin` and     *)
(* `separate`: a fragment met after the placeholder of its field was added *)
(* adds nothing.                                                           *)
C28_PlaceholderOncePerField ==
    [][(AtValue /\ Val.kind = "FieldCode" /\ StateAt(pos) = "begin"
          /\ PropertyInBegin(pos))
         => text' = text]_vars

-----------------------------------------------------------------------------
(* Brackets of the fields, in the stream specification *)

\* the number of fields open after the first k values of vs
OpenFields(vs, k) ==
    Cardinality({i \in 1..k : vs[i].kind = "FieldChar"
                              /\ vs[i].fldCharType = "begin"})
      - Cardinality({i \in 1..k : vs[i].kind = "FieldChar"
                                  /\ vs[i].fldCharType = "end"})

\* every `begin` of vs is matched by an `end`, and every `end` by a `begin`;
\* every instruction is within a field
Matched(vs) ==
    /\ \A k \in 1..Len(vs) : OpenFields(vs, k) >= 0
    /\ OpenFields(vs, Len(vs)) = 0
    /\ \A k \in 1..Len(vs) :
          vs[k].kind \in {"FieldCode", "tuple"} => OpenFields(vs, k) > 0

\* every '[' of t has its ']' after it
Bracketed(t) ==
    /\ \A k \in 1..Len(t) :
          Count(SubSeq(t, 1, k), "[") >= Count(SubSeq(t, 1, k), "]")
    /\ Count(t, "[") = Count(t, "]")

(* C29: for a value stream in which every `begin` is matched by an `end`,  *)
(* with fields nested or one after another, the brackets in the text of    *)
(* the paragraph are balanced: every '[' added for a cross-reference was   *)
(* removed again or has its ']'.                                           *)
C29_BracketsBalanced ==
    (pc = "idle" /\ body_lst # <<>> /\ Matched(Values)
       /\ is_string(body_lst[1]))
      => Bracketed(body_lst[1].s)

-----------------------------------------------------------------------------
(* The class suffix, in the heading specification *)

\* the suffix the properties of the paragraph rendered last yield
LastSuffix == PPrMarkdownSuffix(cur.kids[1], cur.style.name)

\* t holds the tokens of part, one after the other
HasPart(t, part) ==
    \E i \in 0..(Len(t) - Len(part)) : SubSeq(t, i + 1, i + Len(part)) = part

(* C30: a kept paragraph whose properties yield a class suffix (annex,     *)
(* appendix, unnumbered or two of them) has the suffix in its text,        *)
(* whatever its style and its indentation.                                 *)
C30_SuffixInText ==
    (pc = "idle" /\ body_lst # <<>> /\ is_string(body_lst[Len(body_lst)])
       /\ LastSuffix # <<>>)
      => HasPart(body_lst[Len(body_lst)].s, LastSuffix)

====
